---- MODULE Spec2Model ----
(***************************************************************************)
(* Model of the kubernetes-contexts extension's ContextsManager            *)
(* (packages/extension/src/manager/contexts-manager.ts): the held          *)
(* KubeConfig document, the operations that mutate it, the canonical file  *)
(* they write, the change event and the notifications they show.           *)
(***************************************************************************)
EXTENDS Integers, Sequences, FiniteSets, TLC

VARIABLES
    kc,      \* #currentKubeConfig: the held document
    disk,    \* content of the file at kubernetes.getKubeconfig().path
    calls,   \* per task: the call in progress or last finished (position and history)
    nOps,    \* number of mutating calls started so far
    ret,     \* value returned by the last call that returns one
    dupRun,  \* history: the run of consecutive successful duplicateContext calls
    bus,     \* the Dispatcher and its ChannelSubscriber: listeners, subscriptions, dispatches
    ui       \* the import modal of the webview and the file dialogs it asks for

vars == <<kc, disk, calls, nOps, ret, dupRun, bus, ui>>

-----------------------------------------------------------------------------
(* Bounds of the model *)

\* longest context list of a document drawn as input of a pure function
MaxFnContexts == 2
\* number of mutating calls in one behaviour
MaxCalls == 2
\* longest list of selected names handed to importContextsFromFile
MaxSelected == 2
\* call slots: Spec runs one call at a time, in slot 1
Tasks == {1}

-----------------------------------------------------------------------------
(* Values *)

\* JavaScript's undefined, as the value of a property
UNDEF == "<undefined>"

NoDoc == [absent |-> TRUE]
NoContext == [absent |-> TRUE]
NoRet == [absent |-> TRUE]
NoRun == [absent |-> TRUE]
\* find(...) over clusters or users returning undefined
NoEntry == [absent |-> TRUE]
\* the canonical file before anything is written ('{}' in the tests)
EmptyFile == [empty |-> TRUE]

Cluster(n) == [name |-> n, server |-> "https://" \o n]
User(n) == [name |-> n, token |-> "token-" \o n]

\* new KubeConfig()
EmptyKubeConfig == [clusters |-> <<>>, users |-> <<>>, contexts |-> <<>>, currentContext |-> ""]

\* obj.key in JavaScript: undefined when the property is absent
Prop(obj, key) == IF key \in DOMAIN obj THEN obj[key] ELSE UNDEF

\* { ...obj, key: v }
SetField(obj, key, v) == [k \in DOMAIN obj \cup {key} |-> IF k = key THEN v ELSE obj[k]]

\* delete obj.key
DelField(obj, key) == [k \in DOMAIN obj \ {key} |-> obj[k]]

\* v ?? d, and v || d for a string v that is not empty
Coalesce(v, d) == IF v = UNDEF THEN d ELSE v

SeqsUpTo(S, n) == UNION {[1..k -> S] : k \in 0..n}

\* KubeConfig.loadFromOptions(options)
loadFromOptions(options) ==
    [clusters |-> options.clusters,
     users |-> options.users,
     contexts |-> options.contexts,
     currentContext |-> Coalesce(options.currentContext, "")]

\* contexts.find(context => context.name === name) !== undefined
HasContext(doc, name) == \E i \in DOMAIN doc.contexts : doc.contexts[i].name = name

\* contexts.find(context => context.name === name): the first match, or undefined
FindContext(doc, name) ==
    IF HasContext(doc, name)
    THEN LET i == CHOOSE j \in DOMAIN doc.contexts :
                     /\ doc.contexts[j].name = name
                     /\ \A k \in 1..(j - 1) : doc.contexts[k].name # name
         IN doc.contexts[i]
    ELSE NoContext

\* { ...obj }: the own properties of obj, none when obj is undefined
Spread(obj) == IF obj = NoContext THEN [k \in {} |-> UNDEF] ELSE obj

ContextNames(doc) == {doc.contexts[i].name : i \in DOMAIN doc.contexts}

-----------------------------------------------------------------------------
(* Pure functions of ContextsManager *)

\* `${contextName}-${counter}`
SuffixedName(contextName, counter) == contextName \o "-" \o ToString(counter)

RECURSIVE findNewContextNameFrom(_, _, _)
findNewContextNameFrom(kubeConfig, contextName, counter) ==
    IF HasContext(kubeConfig, SuffixedName(contextName, counter))
    THEN findNewContextNameFrom(kubeConfig, contextName, counter + 1)
    ELSE SuffixedName(contextName, counter)

\* a mutation of findNewContextName: the first candidate is returned unchecked
findNewContextName_unchecked(kubeConfig, contextName) ==
    SuffixedName(contextName, 1)

\* a mutation of findNewContextName: the counter starts at 2
findNewContextName_startAt2(kubeConfig, contextName) ==
    findNewContextNameFrom(kubeConfig, contextName, 2)

findNewContextName(kubeConfig, contextName) ==
    findNewContextNameFrom(kubeConfig, contextName, 1)

\* a mutation of KeepEntry: entries not referenced any more are dropped,
\* whether or not they were referenced before
KeepEntry_dropOrphans(entryName, refsAfter, refsBefore) ==
    entryName \in refsAfter

\* a mutation of KeepEntry: every entry referenced before the removal is dropped
KeepEntry_dropShared(entryName, refsAfter, refsBefore) ==
    entryName \notin refsBefore

\* the filter of removeContext's clusters (and users): keep an entry still
\* referenced, or one that was not referenced before
KeepEntry(entryName, refsAfter, refsBefore) ==
    entryName \in refsAfter \/ entryName \notin refsBefore

\* a mutation of NewCurrentContextName: the current context is never cleared
NewCurrentContextName_keep(previousCurrentContextName, contextName) ==
    previousCurrentContextName

\* removeContext's newCurrentContextName (undefined when the current context is removed)
NewCurrentContextName(previousCurrentContextName, contextName) ==
    IF previousCurrentContextName = contextName THEN UNDEF ELSE previousCurrentContextName

\* removeContext past its early return: the new KubeConfig it builds
removeContextRebuild(kubeconfig, contextName) ==
    LET previousContexts == kubeconfig.contexts
        newContexts == SelectSeq(previousContexts, LAMBDA ctx : ctx.name # contextName)
        clusterRefs(cs) == {cs[i].cluster : i \in DOMAIN cs}
        userRefs(cs) == {cs[i].user : i \in DOMAIN cs}
    IN loadFromOptions(
              [contexts |-> newContexts,
               clusters |-> SelectSeq(kubeconfig.clusters,
                              LAMBDA cluster : KeepEntry(cluster.name, clusterRefs(newContexts),
                                                         clusterRefs(previousContexts))),
               users |-> SelectSeq(kubeconfig.users,
                              LAMBDA user : KeepEntry(user.name, userRefs(newContexts),
                                                      userRefs(previousContexts))),
               currentContext |->
                   Coalesce(NewCurrentContextName(kubeconfig.currentContext, contextName), "")])

\* a mutation of removeContext: no early return when the name is not found
removeContext_noEarlyReturn(kubeconfig, contextName) ==
    removeContextRebuild(kubeconfig, contextName)

removeContext(kubeconfig, contextName) ==
    LET previousContexts == kubeconfig.contexts
        newContexts == SelectSeq(previousContexts, LAMBDA ctx : ctx.name # contextName)
    IN IF Len(newContexts) = Len(previousContexts)
       THEN kubeconfig
       ELSE removeContextRebuild(kubeconfig, contextName)

-----------------------------------------------------------------------------
(* Persistence and notifications *)

\* JSON.stringify of an object: properties whose value is undefined are left out
JsonObject(obj) == [k \in {x \in DOMAIN obj : obj[x] # UNDEF} |-> obj[k]]

\* KubeConfig.exportConfig(), then jsYaml.dump(JSON.parse(...)): the text of the file
exportConfig(doc) ==
    [clusters |-> [i \in DOMAIN doc.clusters |->
                     [name |-> doc.clusters[i].name,
                      cluster |-> JsonObject([server |-> Prop(doc.clusters[i], "server")])]],
     users |-> [i \in DOMAIN doc.users |-> [name |-> doc.users[i].name]],
     contexts |-> [i \in DOMAIN doc.contexts |->
                     [name |-> doc.contexts[i].name,
                      context |-> JsonObject([cluster |-> Prop(doc.contexts[i], "cluster"),
                                              user |-> Prop(doc.contexts[i], "user"),
                                              namespace |-> Prop(doc.contexts[i], "namespace")])]],
     currentContext |-> doc.currentContext]

\* String(error) of the failures the environment and the code can raise
PathError == "Error: error getting kubeconfig path"
WriteError == "Error: write failed"
NotFoundError == "Error: Context name was not found in kube config"

\* the notification each operation's catch block shows
ErrorNotification(op, contextName, error) ==
    [title |-> CASE op = "setCurrentContext" -> "Error setting current context"
                 [] op = "deleteContext" -> "Error deleting context"
                 [] op = "duplicateContext" -> "Error duplicating context"
                 [] op = "editContext" -> "Error editing context",
     body |-> (CASE op = "setCurrentContext" -> "Setting current context to \""
                 [] op = "deleteContext" -> "Deleting context \""
                 [] op = "duplicateContext" -> "Duplicating context \""
                 [] op = "editContext" -> "Editing context \"")
              \o contextName \o "\" failed: " \o error,
     type |-> "error",
     highlight |-> TRUE]

-----------------------------------------------------------------------------
(* Dispatcher and ChannelSubscriber *)

\* the channels a consumer can subscribe to; AVAILABLE_CONTEXTS.name is the first
AvailableContexts == "AvailableContexts"
Channels == {AvailableContexts, "ContextsHealths", "ResourcesCount"}

\* the channels of the DispatcherObjects handed to the Dispatcher's
\* constructor: "ResourcesCount" has no producer
Producers == {AvailableContexts, "ContextsHealths"}

\* the Dispatcher after construction, before init(): no listener is
\* registered; the ChannelSubscriber has no subscription. `log` holds the
\* dispatchByChannelName calls made by the last step, each with the producer
\* it invoked (if any) and the argument; `pending` the producers whose
\* promise is not settled yet. `raised` counts the change events and
\* `announced` is the channel of the "new subscriber" event of the last step
NewBus ==
    [changeListeners |-> 0,
     subscribeListeners |-> 0,
     subs |-> [c \in Channels |-> <<>>],
     log |-> <<>>,
     raised |-> 0,
     announced |-> "",
     pending |-> <<>>]

\* a new step begins: the calls of the step before are forgotten
Quiet(b) == [b EXCEPT !.log = <<>>, !.raised = 0, !.announced = ""]

\* ChannelSubscriber.hasSubscribers(channelName), getSubscriptions(channelName)
hasSubscribers(b, channelName) == b.subs[channelName] # <<>>
getSubscriptions(b, channelName) == b.subs[channelName]

\* a mutation of InvokesProducer: the producer is invoked without subscribers too
InvokesProducer_always(b, channelName) == channelName \in Producers

\* dispatchByChannelName goes on to dispatcher.dispatch(subscriptions) when the
\* channel has subscribers and a DispatcherObject is registered for it
InvokesProducer(b, channelName) ==
    hasSubscribers(b, channelName) /\ channelName \in Producers

\* this.#dispatchers.get(channelName), for a channel that has one
ProducerOf(channelName) == channelName

\* a mutation of dispatchByChannelName: the producer's promise is settled
\* within the call
dispatchByChannelName_settled(b, channelName, cause) ==
    [b EXCEPT
        !.log = Append(@, [channel |-> channelName, cause |-> cause,
                           producer |-> IF InvokesProducer(b, channelName) THEN ProducerOf(channelName) ELSE "",
                           subscriptions |-> IF InvokesProducer(b, channelName)
                                             THEN getSubscriptions(b, channelName) ELSE <<>>,
                           consoleError |-> hasSubscribers(b, channelName) /\ channelName \notin Producers])]

\* dispatchByChannelName(channelName) up to the await of the producer's
\* promise; `cause` is the event whose listener made the call. Without
\* subscribers it returns at once; with subscribers and no DispatcherObject it
\* logs with console.error and returns
dispatchByChannelName(b, channelName, cause) ==
    IF InvokesProducer(b, channelName)
    THEN [b EXCEPT
            !.log = Append(@, [channel |-> channelName, cause |-> cause,
                               producer |-> ProducerOf(channelName),
                               subscriptions |-> getSubscriptions(b, channelName),
                               consoleError |-> FALSE]),
            !.pending = Append(@, ProducerOf(channelName))]
    ELSE [b EXCEPT
            !.log = Append(@, [channel |-> channelName, cause |-> cause,
                               producer |-> "", subscriptions |-> <<>>,
                               consoleError |-> hasSubscribers(b, channelName)])]

\* a mutation of ChangeChannel: the change event dispatches another channel
ChangeChannel_healths == "ContextsHealths"

\* the channel the listener of onContextsChange dispatches
ChangeChannel == AvailableContexts

\* a mutation of SubscribeChannel: a new subscriber dispatches the available contexts
SubscribeChannel_available(channelName) == AvailableContexts

\* the channel the listener of onSubscribe dispatches: the one of the event
SubscribeChannel(channelName) == channelName

\* the listeners init() registered on onSubscribe run for a "new subscriber"
\* event carrying channelName
RECURSIVE runSubscribeListeners(_, _, _)
runSubscribeListeners(b, channelName, n) ==
    IF n = 0 THEN b
    ELSE runSubscribeListeners(
            dispatchByChannelName(b, SubscribeChannel(channelName), "subscribe"), channelName, n - 1)

\* the listeners init() registered on onContextsChange run, one after the other
RECURSIVE runChangeListeners(_, _)
runChangeListeners(b, n) ==
    IF n = 0 THEN b
    ELSE runChangeListeners(dispatchByChannelName(b, ChangeChannel, "change"), n - 1)

\* Emitter.fire(), `n` times: every registered listener is called each time
RECURSIVE fire(_, _)
fire(b, n) ==
    IF n = 0 THEN b
    ELSE fire(runChangeListeners([b EXCEPT !.raised = @ + 1], b.changeListeners), n - 1)

-----------------------------------------------------------------------------
(* The import modal (ImportModal.svelte) and the open-dialog API *)

KEEP_BOTH == "keep-both"
REPLACE == "replace"
DIALOG_ID == "import-modal"

\* no importContextsFromFile request was sent
NoRequest == [absent |-> TRUE]

\* the modal after mount: the $state fields; `pc` is the remote call the
\* modal awaits ("" when none), `sent` the arguments of the last
\* importContextsFromFile request, `clicked` the radio last clicked per row,
\* `closed` whether closeCallback was called. `dialogs` are the showOpenDialog
\* calls of the extension, `inFlight` the OPEN_DIALOG_RESULTS broadcasts sent
\* and not yet received by the webview, `handled` the number of results the
\* modal reacted to
NewUi ==
    [errorMessage |-> "",
     filePath |-> UNDEF,
     loadedContexts |-> <<>>,
     loading |-> FALSE,
     pc |-> "",
     sent |-> NoRequest,
     clicked |-> <<>>,
     closed |-> FALSE,
     dialogs |-> <<>>,
     inFlight |-> <<>>,
     handled |-> 0]

-----------------------------------------------------------------------------
(* Calls *)

IdleCall ==
    [op |-> "none", name |-> "", newContext |-> NoContext, pc |-> "idle",
     pre |-> NoDoc, preDisk |-> NoDoc, asked |-> FALSE, answer |-> "", buf |-> NoDoc,
     fired |-> 0, notifs |-> <<>>, threw |-> "", error |-> "",
     file |-> NoDoc, selected |-> <<>>, resolutions |-> <<>>, trace |-> <<>>]

NewCall(op, name) ==
    [IdleCall EXCEPT !.op = op, !.name = name, !.pre = kc, !.preDisk = disk, !.pc = "start"]

\* a call slot is free when no call is in progress in it
Free(t) == calls[t].pc \in {"idle", "done"}

Init ==
    /\ kc = EmptyKubeConfig
    /\ disk = EmptyFile
    /\ calls = [t \in Tasks |-> IdleCall]
    /\ nOps = 0
    /\ ret = NoRet
    /\ dupRun = NoRun
    /\ bus = NewBus
    /\ ui = NewUi

\* a mutation of Catches: duplicateContext and editContext have no try block
Catches_notCopyOrEdit(op) == op \in {"setCurrentContext", "deleteContext"}

\* the operations whose body is a try block with a catch that shows a notification
Catches(op) == op \in {"setCurrentContext", "deleteContext", "duplicateContext", "editContext"}

\* an error is raised in call `c`: its catch block shows the notification, or,
\* without a try block, the error propagates to the caller
Fails(c, error) ==
    IF Catches(c.op)
    THEN [c EXCEPT !.pc = "done", !.error = error,
                   !.notifs = Append(@, ErrorNotification(c.op, c.name, error))]
    ELSE [c EXCEPT !.pc = "done", !.error = error, !.threw = error]

\* the number of times the step of call slot `t` fires the change event
FiredNow(t) ==
    calls'[t].fired - (IF calls[t].pc \in {"confirm", "writing"} THEN calls[t].fired ELSE 0)

\* a mutation of BeginSave: the document of before the call is serialized
BeginSave_stale(c, doc, pathOk) ==
    IF pathOk
    THEN [c EXCEPT !.pc = "writing", !.buf = exportConfig(c.pre)]
    ELSE Fails(c, PathError)

\* saveKubeConfig() up to its await: serialize the held document, resolve the
\* canonical path (which may throw), start the write. `c` is the call so far,
\* `doc` the held document at that point.
BeginSave(c, doc, pathOk) ==
    IF pathOk
    THEN [c EXCEPT !.pc = "writing", !.buf = exportConfig(doc)]
    ELSE Fails(c, PathError)

\* a mutation of FiresAfterSave: every operation fires the event after the write
FiresAfterSave_all(op) == TRUE

\* the change event is fired after the write by the operations that mutate the
\* held document themselves; duplicateContext and editContext fire it in update()
FiresAfterSave(op) == op \in {"setCurrentContext", "deleteContext"}

\* update(kubeConfig)
Update(t, doc) ==
    /\ Free(t)
    /\ kc' = doc
    /\ calls' = [calls EXCEPT ![t] = [NewCall("update", "") EXCEPT !.pc = "done", !.fired = 1, !.pre = NoDoc]]
    /\ dupRun' = NoRun
    /\ UNCHANGED <<disk, nOps, ret>>
    /\ bus' = fire(Quiet(bus), FiredNow(t))
    /\ UNCHANGED ui

SetCurrentContext(t, contextName, pathOk) ==
    /\ Free(t)
    /\ nOps < MaxCalls
    /\ nOps' = nOps + 1
    /\ kc' = [kc EXCEPT !.currentContext = contextName]
    /\ calls' = [calls EXCEPT ![t] = BeginSave(NewCall("setCurrentContext", contextName), kc', pathOk)]
    /\ dupRun' = NoRun
    /\ UNCHANGED <<disk, ret>>
    /\ bus' = fire(Quiet(bus), FiredNow(t))
    /\ UNCHANGED ui

\* a mutation of ConfirmProceeds: only an explicit 'Cancel' aborts
ConfirmProceeds_unlessCancel(result) == result # "Cancel"

\* deleteContext goes on after the prompt only when the answer is 'Yes'
ConfirmProceeds(result) == result = "Yes"

\* a mutation of NeedsConfirmation: deleteContext never prompts
NeedsConfirmation_never(doc, contextName) == FALSE

\* deleteContext prompts when the name is the held document's current context
NeedsConfirmation(doc, contextName) == contextName = doc.currentContext

\* deleteContextInternal(contextName) up to the await of the write
DeleteContextInternal(t, c, pathOk) ==
    /\ kc' = removeContext(kc, c.name)
    /\ calls' = [calls EXCEPT ![t] = BeginSave(c, kc', pathOk)]

DeleteContext(t, contextName, pathOk) ==
    /\ Free(t)
    /\ nOps < MaxCalls
    /\ nOps' = nOps + 1
    /\ IF NeedsConfirmation(kc, contextName)
       THEN /\ calls' = [calls EXCEPT ![t] =
                           [NewCall("deleteContext", contextName) EXCEPT !.pc = "confirm", !.asked = TRUE]]
            /\ kc' = kc
       ELSE DeleteContextInternal(t, NewCall("deleteContext", contextName), pathOk)
    /\ dupRun' = NoRun
    /\ UNCHANGED <<disk, ret>>
    /\ bus' = fire(Quiet(bus), FiredNow(t))
    /\ UNCHANGED ui

\* window.showInformationMessage resolves: 'Yes', 'Cancel', or undefined when dismissed
ConfirmAnswers == {"Yes", "Cancel", UNDEF}

AnswerConfirmation(t, result, pathOk) ==
    /\ calls[t].pc = "confirm"
    /\ IF ConfirmProceeds(result)
       THEN DeleteContextInternal(t, [calls[t] EXCEPT !.answer = result], pathOk)
       ELSE /\ calls' = [calls EXCEPT ![t] = [@ EXCEPT !.answer = result, !.pc = "done"]]
            /\ kc' = kc
    /\ UNCHANGED <<disk, nOps, ret, dupRun>>
    /\ bus' = fire(Quiet(bus), FiredNow(t))
    /\ UNCHANGED ui

\* a mutation of DuplicateFound: no early return when the context is missing
DuplicateFound_always(kubeConfig, contextName) == TRUE

\* duplicateContext goes on only when the named context is found
DuplicateFound(kubeConfig, contextName) == HasContext(kubeConfig, contextName)

\* a mutation of duplicateConfig: the copy is put first
duplicateConfig_prepend(kubeConfig, contextName) ==
    loadFromOptions(
        [clusters |-> kubeConfig.clusters,
         users |-> kubeConfig.users,
         currentContext |-> kubeConfig.currentContext,
         contexts |-> <<SetField(Spread(FindContext(kubeConfig, contextName)), "name",
                                 findNewContextName(kubeConfig, contextName))>>
                      \o kubeConfig.contexts])

\* the KubeConfig duplicateContext builds
duplicateConfig(kubeConfig, contextName) ==
    LET newName == findNewContextName(kubeConfig, contextName)
        originalContext == FindContext(kubeConfig, contextName)
    IN loadFromOptions(
           [clusters |-> kubeConfig.clusters,
            users |-> kubeConfig.users,
            currentContext |-> kubeConfig.currentContext,
            contexts |-> Append(kubeConfig.contexts,
                                SetField(Spread(originalContext), "name", newName))])

\* the run of consecutive successful duplicateContext(contextName) calls that
\* this call continues or starts
RunAtDuplicate(t, contextName) ==
    IF /\ dupRun # NoRun
       /\ dupRun.name = contextName
       /\ calls[t].op = "duplicateContext"
       /\ calls[t].name = contextName
    THEN dupRun
    ELSE [name |-> contextName, start |-> kc, k |-> 0]

DuplicateContext(t, contextName, pathOk) ==
    /\ Free(t)
    /\ nOps < MaxCalls
    /\ nOps' = nOps + 1
    /\ IF ~DuplicateFound(kc, contextName)
       THEN /\ calls' = [calls EXCEPT ![t] = [NewCall("duplicateContext", contextName) EXCEPT !.pc = "done"]]
            /\ kc' = kc
            /\ dupRun' = NoRun
       ELSE /\ kc' = duplicateConfig(kc, contextName)
            /\ calls' = [calls EXCEPT ![t] =
                           BeginSave([NewCall("duplicateContext", contextName) EXCEPT !.fired = 1],
                                     kc', pathOk)]
            /\ dupRun' = IF pathOk THEN RunAtDuplicate(t, contextName) ELSE NoRun
    /\ UNCHANGED <<disk, ret>>
    /\ bus' = fire(Quiet(bus), FiredNow(t))
    /\ UNCHANGED ui

\* a mutation of editedContext: an empty namespace is stored as such
editedContext_keepEmpty(originalContext, newContext) ==
    LET renamed == SetField(SetField(SetField(Spread(originalContext),
                       "name", newContext.name), "cluster", newContext.cluster),
                       "user", newContext.user)
    IN SetField(renamed, "namespace", Prop(newContext, "namespace"))

\* the context editContext builds from the original and the new fields
editedContext(originalContext, newContext) ==
    LET renamed == SetField(SetField(SetField(Spread(originalContext),
                       "name", newContext.name), "cluster", newContext.cluster),
                       "user", newContext.user)
        withNamespace == IF Prop(newContext, "namespace") # ""
                         THEN SetField(renamed, "namespace", Prop(newContext, "namespace"))
                         ELSE renamed
    IN IF Prop(newContext, "namespace") = ""
       THEN DelField(withNamespace, "namespace")
       ELSE withNamespace

\* a mutation of editCurrentContext: the current context never follows a rename
editCurrentContext_keep(kubeConfig, contextName, newContext) == kubeConfig.currentContext

\* the current context editContext hands to the new KubeConfig
editCurrentContext(kubeConfig, contextName, newContext) ==
    IF kubeConfig.currentContext = contextName
    THEN newContext.name
    ELSE kubeConfig.currentContext

\* the KubeConfig editContext builds, for a context that is found
editConfig(kubeConfig, contextName, newContext) ==
    LET originalContext == FindContext(kubeConfig, contextName)
        newContexts == SelectSeq(kubeConfig.contexts, LAMBDA ctx : ctx.name # contextName)
    IN loadFromOptions(
           [clusters |-> kubeConfig.clusters,
            users |-> kubeConfig.users,
            currentContext |-> editCurrentContext(kubeConfig, contextName, newContext),
            contexts |-> <<editedContext(originalContext, newContext)>> \o newContexts])

\* a mutation of EditFound: no failure when the context is missing
EditFound_always(kubeConfig, contextName) == TRUE

\* editContext goes on only when the named context is found; it throws otherwise
EditFound(kubeConfig, contextName) == HasContext(kubeConfig, contextName)

EditContext(t, contextName, newContext, pathOk) ==
    /\ Free(t)
    /\ nOps < MaxCalls
    /\ nOps' = nOps + 1
    /\ LET c == [NewCall("editContext", contextName) EXCEPT !.newContext = newContext]
       IN IF ~EditFound(kc, contextName)
          THEN /\ calls' = [calls EXCEPT ![t] = Fails(c, NotFoundError)]
               /\ kc' = kc
          ELSE /\ kc' = editConfig(kc, contextName, newContext)
               /\ calls' = [calls EXCEPT ![t] = BeginSave([c EXCEPT !.fired = 1], kc', pathOk)]
    /\ dupRun' = NoRun
    /\ UNCHANGED <<disk, ret>>
    /\ bus' = fire(Quiet(bus), FiredNow(t))
    /\ UNCHANGED ui

\* writeFile settles: the file holds the text on success; on failure the
\* operation's catch block shows its notification, or the error propagates
WriteSettles(t, ok) ==
    /\ calls[t].pc = "writing"
    /\ IF ok
       THEN /\ disk' = calls[t].buf
            /\ calls' = [calls EXCEPT ![t] =
                           [@ EXCEPT !.pc = "done",
                                     !.fired = IF FiresAfterSave(calls[t].op) THEN @ + 1 ELSE @]]
            /\ dupRun' = IF calls[t].op = "duplicateContext" /\ dupRun # NoRun
                         THEN [dupRun EXCEPT !.k = @ + 1]
                         ELSE dupRun
       ELSE /\ disk' = disk
            /\ calls' = [calls EXCEPT ![t] = Fails(calls[t], WriteError)]
            /\ dupRun' = NoRun
    /\ UNCHANGED <<kc, nOps, ret>>
    /\ bus' = fire(Quiet(bus), FiredNow(t))
    /\ UNCHANGED ui

-----------------------------------------------------------------------------
(* Import from another kubeconfig file *)

\* the path handed to getImportContexts and importContextsFromFile
ImportFilePath == "/path/to/import.yaml"

\* what is found at that path: nothing, a file that loadFromFile cannot parse,
\* or (any other value) the document that loadFromFile loads
MissingFile == [missing |-> TRUE]
BadFile == [unparsable |-> TRUE]
Loadable(file) == file \notin {MissingFile, BadFile}

\* String(error) of the errors raised on the import paths
LoadError == "Error: Invalid YAML"
NotExistError == "Error: Kubeconfig file " \o ImportFilePath \o " does not exist"
ParseError == "Error: Failed to parse kubeconfig file: " \o LoadError
MissingReferenceError(contextName) ==
    "Error: Missing cluster or user information for context " \o contextName

\* entries.find(e => e.name === name): the first match, or undefined
FindEntry(entries, name) ==
    IF \E i \in DOMAIN entries : entries[i].name = name
    THEN LET i == CHOOSE j \in DOMAIN entries :
                     /\ entries[j].name = name
                     /\ \A k \in 1..(j - 1) : entries[k].name # name
         IN entries[i]
    ELSE NoEntry

getClusterFromConfig(config, contextName) ==
    LET context == FindContext(config, contextName)
    IN IF context = NoContext THEN NoEntry ELSE FindEntry(config.clusters, context.cluster)

getUserFromConfig(config, contextName) ==
    LET context == FindContext(config, contextName)
    IN IF context = NoContext THEN NoEntry ELSE FindEntry(config.users, context.user)

\* KubeConfig.loadFromString(text) of a text that exportConfig() produced: a
\* cluster keeps its name and server, a user its name, a context the
\* properties that were exported
loadFromString(text) ==
    [clusters |-> [i \in DOMAIN text.clusters |->
                     [name |-> text.clusters[i].name,
                      server |-> Prop(text.clusters[i].cluster, "server")]],
     users |-> [i \in DOMAIN text.users |->
                  [name |-> text.users[i].name, token |-> UNDEF]],
     contexts |-> [i \in DOMAIN text.contexts |->
                     SetField(text.contexts[i].context, "name", text.contexts[i].name)],
     currentContext |-> text.currentContext]

\* a mutation of ImportHasConflict: no candidate is reported as conflicting
ImportHasConflict_never(held, contextName) == FALSE

\* getImportContexts: a candidate conflicts when the held document has a context of its name
ImportHasConflict(held, contextName) == FindContext(held, contextName) # NoContext

\* the ImportContextInfo getImportContexts pushes for one context of the file
ImportContextInfo(importConfig, context, held) ==
    LET cluster == FindEntry(importConfig.clusters, context.cluster)
    IN [name |-> context.name,
        cluster |-> context.cluster,
        user |-> context.user,
        namespace |-> Prop(context, "namespace"),
        server |-> IF cluster = NoEntry THEN UNDEF ELSE Prop(cluster, "server"),
        hasConflict |-> ImportHasConflict(held, context.name)]

\* getImportContexts(filePath): throws when the file does not exist or cannot
\* be loaded, returns the candidates otherwise
GetImportContexts(t, file) ==
    /\ Free(t)
    /\ LET c == [NewCall("getImportContexts", ImportFilePath) EXCEPT !.file = file]
       IN IF file = MissingFile
          THEN /\ calls' = [calls EXCEPT ![t] = Fails(c, NotExistError)]
               /\ ret' = NoRet
          ELSE IF file = BadFile
          THEN /\ calls' = [calls EXCEPT ![t] = Fails(c, ParseError)]
               /\ ret' = NoRet
          ELSE /\ calls' = [calls EXCEPT ![t] = [c EXCEPT !.pc = "done"]]
               /\ ret' = [list |-> [i \in DOMAIN file.contexts |->
                                      ImportContextInfo(file, file.contexts[i], kc)]]
    /\ UNCHANGED <<kc, disk, nOps, dupRun, bus, ui>>

\* resolveNamingConflicts; `held` is this.getKubeConfig()
resolveNamingConflicts(held, contextName, sourceContext, existingContext, conflictResolution) ==
    [finalContextName |-> IF existingContext # NoContext /\ conflictResolution = "keep-both"
                          THEN findNewContextName(held, contextName)
                          ELSE contextName,
     finalClusterName |-> sourceContext.cluster,
     finalUserName |-> sourceContext.user]

\* a working copy whose processing raised an error
Thrown(error) == [threw |-> error]
IsThrown(doc) == "threw" \in DOMAIN doc

\* a mutation of MissingReference: only a missing cluster is an error
MissingReference_clusterOnly(sourceCluster, sourceUser) == sourceCluster = NoEntry

\* processContextImport throws when the source's cluster or user is not found
MissingReference(sourceCluster, sourceUser) == sourceCluster = NoEntry \/ sourceUser = NoEntry

\* a mutation of Replaces: the existing context is never removed
Replaces_never(conflictResolution, existingContext) == FALSE

\* processContextImport removes the existing context and its cluster and user
Replaces(conflictResolution, existingContext) ==
    conflictResolution = "replace" /\ existingContext # NoContext

\* processContextImport: the working copy after one selected name, or the error raised
processContextImport(held, newConfig, tempConfig, contextName, conflictResolutions) ==
    LET sourceContext == FindContext(tempConfig, contextName)
        sourceCluster == getClusterFromConfig(tempConfig, contextName)
        sourceUser == getUserFromConfig(tempConfig, contextName)
        conflictResolution == Prop(conflictResolutions, contextName)
        existingContext == FindContext(newConfig, contextName)
        final == resolveNamingConflicts(held, contextName, sourceContext, existingContext,
                                        conflictResolution)
        replaces == Replaces(conflictResolution, existingContext)
        contexts == IF replaces
                    THEN SelectSeq(newConfig.contexts, LAMBDA ctx : ctx.name # contextName)
                    ELSE newConfig.contexts
        clusters == IF replaces
                    THEN SelectSeq(newConfig.clusters, LAMBDA c : c.name # existingContext.cluster)
                    ELSE newConfig.clusters
        users == IF replaces
                 THEN SelectSeq(newConfig.users, LAMBDA u : u.name # existingContext.user)
                 ELSE newConfig.users
    IN IF sourceContext = NoContext THEN newConfig
       ELSE IF MissingReference(sourceCluster, sourceUser)
       THEN Thrown(MissingReferenceError(contextName))
       ELSE [newConfig EXCEPT
               !.contexts = Append(contexts,
                                   [name |-> final.finalContextName,
                                    cluster |-> final.finalClusterName,
                                    user |-> final.finalUserName,
                                    namespace |-> Prop(sourceContext, "namespace")]),
               !.clusters = IF FindEntry(clusters, final.finalClusterName) = NoEntry
                            THEN Append(clusters, SetField(sourceCluster, "name", final.finalClusterName))
                            ELSE clusters,
               !.users = IF FindEntry(users, final.finalUserName) = NoEntry
                         THEN Append(users, SetField(sourceUser, "name", final.finalUserName))
                         ELSE users]

\* the loop of importContextsFromFile: trace[1] is the copy of the held
\* document, trace[i + 1] the working copy after selectedContexts[i]; the loop
\* ends at the first error raised
RECURSIVE importLoop(_, _, _, _, _)
importLoop(held, trace, tempConfig, selectedContexts, conflictResolutions) ==
    IF Len(trace) > Len(selectedContexts)
    THEN trace
    ELSE LET after == processContextImport(held, trace[Len(trace)], tempConfig,
                                           selectedContexts[Len(trace)], conflictResolutions)
         IN IF IsThrown(after)
            THEN Append(trace, after)
            ELSE importLoop(held, Append(trace, after), tempConfig, selectedContexts,
                            conflictResolutions)

\* importContextsFromFile up to the await of the write
ImportContextsFromFile(t, file, selectedContexts, conflictResolutions, pathOk) ==
    /\ Free(t)
    /\ nOps' = nOps + 1
    /\ LET c == [NewCall("importContextsFromFile", ImportFilePath) EXCEPT
                    !.file = file, !.selected = selectedContexts,
                    !.resolutions = conflictResolutions]
       IN IF ~Loadable(file)
          THEN /\ calls' = [calls EXCEPT ![t] = Fails(c, LoadError)]
               /\ kc' = kc
          ELSE \E trace \in {importLoop(kc, <<loadFromString(exportConfig(kc))>>, file,
                                         selectedContexts, conflictResolutions)} :
                  IF IsThrown(trace[Len(trace)])
                  THEN /\ calls' = [calls EXCEPT ![t] =
                                      Fails([c EXCEPT !.trace = trace], trace[Len(trace)].threw)]
                       /\ kc' = kc
                  ELSE /\ kc' = trace[Len(trace)]
                       /\ calls' = [calls EXCEPT ![t] =
                                      BeginSave([c EXCEPT !.trace = trace, !.fired = 1], kc', pathOk)]
    /\ dupRun' = NoRun
    /\ ret' = NoRet
    /\ UNCHANGED disk
    /\ bus' = fire(Quiet(bus), FiredNow(t))
    /\ UNCHANGED ui

-----------------------------------------------------------------------------
(* Inputs *)

ClusterNames == {"c1", "c2"}
UserNames == {"u1", "u2"}

\* names of the contexts of the documents handed to update(), and of the calls' arguments
DocNames == {"a", "a-1"}

PlainContexts == [name : DocNames, cluster : ClusterNames, user : {"u1"}]
DocContexts == PlainContexts \cup {SetField(c, "namespace", "n1") : c \in PlainContexts}

\* the documents handed to update(): contexts with distinct names, in every
\* order, over two clusters and one user
Docs ==
    [clusters : {<<Cluster("c1"), Cluster("c2")>>},
     users : {<<User("u1")>>},
     contexts : {cs \in SeqsUpTo(DocContexts, Cardinality(DocNames)) :
                    \A i, j \in DOMAIN cs : cs[i].name = cs[j].name => i = j},
     currentContext : {"", "a"}]

\* the new fields handed to editContext: cluster c3 is in no document
PlainNewContexts == [name : {"a", "b"}, cluster : {"c1", "c3"}, user : {"u1"}]
NewContexts ==
    PlainNewContexts \cup {SetField(c, "namespace", ns) : c \in PlainNewContexts, ns \in {"", "n2"}}

\* the extension hands update() the kubeconfig it loaded, before the user acts on it
LoadKubeConfig(t) ==
    /\ nOps = 0
    /\ \E doc \in Docs : Update(t, doc)

Next ==
    \E t \in Tasks :
        \/ LoadKubeConfig(t)
        \/ \E contextName \in DocNames, pathOk \in BOOLEAN :
              \/ SetCurrentContext(t, contextName, pathOk)
              \/ DeleteContext(t, contextName, pathOk)
              \/ DuplicateContext(t, contextName, pathOk)
              \/ \E newContext \in NewContexts : EditContext(t, contextName, newContext, pathOk)
        \/ \E result \in ConfirmAnswers, pathOk \in BOOLEAN : AnswerConfirmation(t, result, pathOk)
        \/ \E ok \in BOOLEAN : WriteSettles(t, ok)

Spec == Init /\ [][Next]_vars

-----------------------------------------------------------------------------
(* Pure calls, applied to a document drawn from a bounded set *)

FnNames == {"a", "a-1", "a-2"}

ClusterLists == {<<>>, <<Cluster("c1")>>, <<Cluster("c2")>>, <<Cluster("c1"), Cluster("c2")>>}
UserLists == {<<>>, <<User("u1")>>, <<User("u2")>>, <<User("u1"), User("u2")>>}

FnContexts == [name : FnNames, cluster : ClusterNames, user : UserNames]

FnDocs ==
    [clusters : ClusterLists, users : UserLists,
     contexts : SeqsUpTo(FnContexts, MaxFnContexts),
     currentContext : {"", "a", "a-1"}]

InitFn ==
    /\ kc \in FnDocs
    /\ disk = EmptyFile
    /\ calls = [t \in Tasks |-> IdleCall]
    /\ nOps = 0
    /\ ret = NoRet
    /\ dupRun = NoRun
    /\ bus = NewBus
    /\ ui = NewUi

CallRemoveContext(contextName) ==
    /\ calls' = [calls EXCEPT ![1] = [NewCall("removeContext", contextName) EXCEPT !.pc = "done"]]
    /\ ret' = [doc |-> removeContext(kc, contextName)]
    /\ UNCHANGED <<kc, disk, nOps, dupRun, bus, ui>>

CallFindNewContextName(contextName) ==
    /\ calls' = [calls EXCEPT ![1] = [NewCall("findNewContextName", contextName) EXCEPT !.pc = "done"]]
    /\ ret' = [str |-> findNewContextName(kc, contextName)]
    /\ UNCHANGED <<kc, disk, nOps, dupRun, bus, ui>>

NextFn ==
    \E contextName \in FnNames :
        \/ CallRemoveContext(contextName)
        \/ CallFindNewContextName(contextName)

SpecFn == InitFn /\ [][NextFn]_vars

-----------------------------------------------------------------------------
(* Import calls on a loaded document *)

\* clusters and users of the file to import: same names as the held
\* document's, other servers and tokens
FileCluster(n) == [name |-> n, server |-> "https://import-" \o n]
FileUser(n) == [name |-> n, token |-> "import-token-" \o n]

\* contexts of the file to import: "a" with or without a namespace
FileContexts ==
    PlainContexts \cup {SetField(c, "namespace", "n2") : c \in {x \in PlainContexts : x.name = "a"}}

\* the files: complete, without cluster c2, or without any user
ImportFiles ==
    {[clusters |-> e.clusters, users |-> e.users, contexts |-> cs, currentContext |-> ""] :
        e \in {[clusters |-> <<FileCluster("c1"), FileCluster("c2")>>, users |-> <<FileUser("u1")>>],
               [clusters |-> <<FileCluster("c1")>>, users |-> <<FileUser("u1")>>],
               [clusters |-> <<FileCluster("c1"), FileCluster("c2")>>, users |-> <<>>]},
        cs \in {x \in SeqsUpTo(FileContexts, Cardinality(DocNames)) :
                   \A i, j \in DOMAIN x : x[i].name = x[j].name => i = j}}

\* the documents held when an import starts: contexts without namespace, or
\* "a" alone with a namespace
ImportHeldDocs ==
    {doc \in Docs :
        /\ doc.currentContext = "a"
        /\ \/ \A i \in DOMAIN doc.contexts : "namespace" \notin DOMAIN doc.contexts[i]
           \/ ContextNames(doc) = {"a"}}

\* the selections handed to importContextsFromFile, and the resolutions: a
\* Record whose keys are some of the names
Selections == SeqsUpTo(DocNames, MaxSelected)
Resolutions == UNION {[names -> {"keep-both", "replace"}] : names \in SUBSET DocNames}

\* one call on the loaded document in a behaviour: the candidates of a file
\* are asked for, or contexts are imported
FirstCall(t) == calls[t].op \in {"none", "update"}

LoadForImport(t) ==
    /\ FirstCall(t)
    /\ \E doc \in ImportHeldDocs : Update(t, doc)

NextImport ==
    \E t \in Tasks :
        \/ LoadForImport(t)
        \/ /\ FirstCall(t)
           /\ \E file \in ImportFiles \cup {MissingFile, BadFile} : GetImportContexts(t, file)
        \/ /\ FirstCall(t)
           /\ \E file \in ImportFiles \cup {MissingFile, BadFile}, selectedContexts \in Selections,
                 conflictResolutions \in Resolutions, pathOk \in BOOLEAN :
                 ImportContextsFromFile(t, file, selectedContexts, conflictResolutions, pathOk)
        \/ \E ok \in BOOLEAN : WriteSettles(t, ok)

SpecImport == Init /\ [][NextImport]_vars

-----------------------------------------------------------------------------
(* Sequences of the five persisting operations *)

\* the documents loaded before the sequence starts
OpsDocs ==
    {doc \in Docs :
        doc.contexts \in {<<>>,
                          <<[name |-> "a", cluster |-> "c1", user |-> "u1"]>>,
                          <<[name |-> "a", cluster |-> "c1", user |-> "u1"],
                            [name |-> "a-1", cluster |-> "c2", user |-> "u1"]>>,
                          <<[name |-> "a-1", cluster |-> "c2", user |-> "u1", namespace |-> "n1"]>>}}

\* the new fields handed to editContext
OpsNewContexts ==
    {[name |-> "b", cluster |-> "c1", user |-> "u1"],
     [name |-> "a", cluster |-> "c3", user |-> "u1", namespace |-> ""],
     [name |-> "b", cluster |-> "c1", user |-> "u1", namespace |-> "n2"]}

\* the files to import from: a complete one, and one whose "a-1" names a
\* cluster the file does not have
OpsFiles ==
    {[clusters |-> <<FileCluster("c1"), FileCluster("c2")>>,
      users |-> <<FileUser("u1")>>,
      contexts |-> <<[name |-> "a", cluster |-> "c2", user |-> "u1", namespace |-> "n2"],
                     [name |-> "a-1", cluster |-> "c1", user |-> "u1"]>>,
      currentContext |-> ""],
     [clusters |-> <<FileCluster("c1")>>,
      users |-> <<FileUser("u1")>>,
      contexts |-> <<[name |-> "a", cluster |-> "c1", user |-> "u1"],
                     [name |-> "a-1", cluster |-> "c2", user |-> "u1"]>>,
      currentContext |-> ""]}

\* the resolutions: none, or the same one for every name
OpsResolutions ==
    {[n \in {} |-> "replace"], [n \in DocNames |-> "keep-both"], [n \in DocNames |-> "replace"]}

\* the selections: one name, or both
OpsSelections == {<<"a">>, <<"a-1">>, <<"a", "a-1">>}

LoadForOps(t) ==
    /\ nOps = 0
    /\ \E doc \in OpsDocs : Update(t, doc)

ImportInSequence(t) ==
    /\ nOps < MaxCalls
    /\ \E file \in OpsFiles, selectedContexts \in OpsSelections,
          conflictResolutions \in OpsResolutions, pathOk \in BOOLEAN :
          ImportContextsFromFile(t, file, selectedContexts, conflictResolutions, pathOk)

NextOps ==
    \E t \in Tasks :
        \/ LoadForOps(t)
        \/ \E contextName \in DocNames, pathOk \in BOOLEAN :
              \/ SetCurrentContext(t, contextName, pathOk)
              \/ DeleteContext(t, contextName, pathOk)
              \/ DuplicateContext(t, contextName, pathOk)
              \/ \E newContext \in OpsNewContexts : EditContext(t, contextName, newContext, pathOk)
        \/ ImportInSequence(t)
        \/ \E result \in ConfirmAnswers, pathOk \in BOOLEAN : AnswerConfirmation(t, result, pathOk)
        \/ \E ok \in BOOLEAN : WriteSettles(t, ok)

SpecOps == Init /\ [][NextOps]_vars

-----------------------------------------------------------------------------
(* The dispatcher between the manager's change event and the channels *)

MaxInits == 2
MaxSubscriptions == 2
MaxPending == 1

\* the parameters a consumer subscribes with
Params == {[opt |-> "value"], [opt |-> "other"]}

\* the documents handed to update() and the names handed to the operations
NotifyDocs ==
    {d \in OpsDocs : d.currentContext = "" /\ Len(d.contexts) = 1 /\ "namespace" \notin DOMAIN d.contexts[1]}

Subscriptions(b) == Len(b.subs[AvailableContexts]) + Len(b.subs["ContextsHealths"]) + Len(b.subs["ResourcesCount"])

DropAt(seq, i) == [j \in 1..(Len(seq) - 1) |-> IF j < i THEN seq[j] ELSE seq[j + 1]]

\* Dispatcher.init(): one listener more on each of the two events
DispatcherInit ==
    /\ bus.changeListeners < MaxInits
    /\ bus' = [Quiet(bus) EXCEPT !.changeListeners = @ + 1, !.subscribeListeners = @ + 1]
    /\ UNCHANGED <<kc, disk, calls, nOps, ret, dupRun, ui>>

\* ChannelSubscriber.subscribe(channelName, params): the parameters are
\* recorded, then the "new subscriber" event is raised with the channel name
Subscribe(channelName, params) ==
    /\ Subscriptions(bus) < MaxSubscriptions
    /\ Len(bus.pending) < MaxPending
    /\ bus' = runSubscribeListeners([Quiet(bus) EXCEPT !.subs[channelName] = Append(@, params),
                                                         !.announced = channelName],
                                    channelName, bus.subscribeListeners)
    /\ UNCHANGED <<kc, disk, calls, nOps, ret, dupRun, ui>>

\* ChannelSubscriber.unsubscribe(handle): that subscription is dropped, no
\* event is raised
Unsubscribe(channelName, i) ==
    /\ i \in DOMAIN bus.subs[channelName]
    /\ bus' = [Quiet(bus) EXCEPT !.subs[channelName] = DropAt(@, i)]
    /\ UNCHANGED <<kc, disk, calls, nOps, ret, dupRun, ui>>

\* the promise of a producer invocation settles
ProducerCompletes(i) ==
    /\ i \in DOMAIN bus.pending
    /\ bus' = [Quiet(bus) EXCEPT !.pending = DropAt(@, i)]
    /\ UNCHANGED <<kc, disk, calls, nOps, ret, dupRun, ui>>

\* update() is called whenever the kubeconfig file changed
UpdateForNotify(t) ==
    /\ Len(bus.pending) < MaxPending
    /\ \E doc \in NotifyDocs : Update(t, doc)

NextNotify ==
    \/ DispatcherInit
    \/ \E channelName \in Channels :
          \/ \E params \in Params : Subscribe(channelName, params)
          \/ \E i \in 1..MaxSubscriptions : Unsubscribe(channelName, i)
    \/ \E i \in 1..(MaxPending + MaxInits) : ProducerCompletes(i)
    \/ \E t \in Tasks :
          \/ UpdateForNotify(t)
          \/ \E pathOk \in BOOLEAN : SetCurrentContext(t, "a", pathOk)
          \/ \E ok \in BOOLEAN : WriteSettles(t, ok)

SpecNotify == Init /\ [][NextNotify]_vars

-----------------------------------------------------------------------------
(* The import modal in front of the manager *)

MaxDialogs == 2

\* what the file dialog can hand back: nothing (cancelled), or the paths of
\* the files chosen (the fsPath of a chosen file is never empty)
OtherFilePath == "/path/to/other.yaml"
DialogUris ==
    {[defined |-> FALSE, files |-> <<>>],
     [defined |-> TRUE, files |-> <<ImportFilePath>>],
     [defined |-> TRUE, files |-> <<OtherFilePath>>],
     [defined |-> TRUE, files |-> <<ImportFilePath, OtherFilePath>>]}

\* the file at ImportFilePath has three contexts; the other path cannot be parsed
ModalFile ==
    [clusters |-> <<FileCluster("c1")>>,
     users |-> <<FileUser("u1")>>,
     contexts |-> <<[name |-> "b", cluster |-> "c1", user |-> "u1"],
                    [name |-> "a-1", cluster |-> "c1", user |-> "u1"],
                    [name |-> "a", cluster |-> "c1", user |-> "u1"]>>,
     currentContext |-> ""]
FileAt(path) == IF path = ImportFilePath THEN ModalFile ELSE BadFile

\* the documents held while the modal is open
ModalDocs == {d \in OpsDocs : d.currentContext = ""}

\* what the remote getImportContexts(filePath) call settles with
ImportContextsOf(file, held) ==
    IF file = MissingFile THEN Thrown(NotExistError)
    ELSE IF file = BadFile THEN Thrown(ParseError)
    ELSE [list |-> [i \in DOMAIN file.contexts |-> ImportContextInfo(file, file.contexts[i], held)]]

\* loadContextsFromFile: the resolution every loaded row starts with
InitialResolution == KEEP_BOTH

\* a mutation of NeedsResolution: every selected row gets an entry
NeedsResolution_always(item) == TRUE

\* importSelectedContexts: the rows that get an entry in conflictResolutions
NeedsResolution(item) == item.hasConflict

\* the document is loaded into the manager before the modal is opened
LoadForModal(t) ==
    /\ calls[t].op = "none"
    /\ \E doc \in ModalDocs : Update(t, doc)

\* OpenDialogApiImpl.openDialog(id, options): showOpenDialog is called and
\* not awaited
openDialog(u, id) ==
    [u EXCEPT !.dialogs = Append(@, [id |-> id, state |-> "open", fired |-> 0, notified |-> FALSE])]

\* the modal's openDialog(), on a click on "Browse for file"
OpenDialog ==
    /\ ~ui.closed /\ ~ui.loading
    /\ Len(ui.dialogs) < MaxDialogs
    /\ ui' = openDialog([ui EXCEPT !.errorMessage = "", !.loading = TRUE], DIALOG_ID)
    /\ UNCHANGED <<kc, disk, calls, nOps, ret, dupRun, bus>>

\* openDialog called for another requester of the webview
OpenOtherDialog ==
    /\ Len(ui.dialogs) < MaxDialogs
    /\ ui' = openDialog(ui, "other")
    /\ UNCHANGED <<kc, disk, calls, nOps, ret, dupRun, bus>>

\* showOpenDialog resolves: the paths are broadcast with the request's id
DialogResolves(i, uris) ==
    /\ i \in DOMAIN ui.dialogs
    /\ ui.dialogs[i].state = "open"
    /\ ui' = [ui EXCEPT !.dialogs[i].state = "resolved",
                        !.dialogs[i].fired = @ + 1,
                        !.inFlight = Append(@, [id |-> ui.dialogs[i].id, request |-> i,
                                                defined |-> uris.defined, files |-> uris.files])]
    /\ UNCHANGED <<kc, disk, calls, nOps, ret, dupRun, bus>>

\* showOpenDialog rejects: a notification is shown and `files: undefined` is
\* broadcast with the request's id
DialogRejects(i) ==
    /\ i \in DOMAIN ui.dialogs
    /\ ui.dialogs[i].state = "open"
    /\ ui' = [ui EXCEPT !.dialogs[i].state = "rejected",
                        !.dialogs[i].notified = TRUE,
                        !.dialogs[i].fired = @ + 1,
                        !.inFlight = Append(@, [id |-> ui.dialogs[i].id, request |-> i,
                                                defined |-> FALSE, files |-> <<>>])]
    /\ UNCHANGED <<kc, disk, calls, nOps, ret, dupRun, bus>>

\* a mutation of ReactsTo: the modal reacts to every result
ReactsTo_any(result) == TRUE

\* the listener of onMount: only results with the modal's id are handled
ReactsTo(result) == result.id = DIALOG_ID

\* handleDialogResult, and loadContextsFromFile up to its await (an empty
\* path makes loadContextsFromFile return at once; no chosen file has one)
handleDialogResult(u, result) ==
    IF ~(result.defined /\ Len(result.files) = 1)
    THEN [u EXCEPT !.loading = FALSE, !.handled = @ + 1]
    ELSE IF result.files[1] = ""
    THEN [u EXCEPT !.filePath = "", !.errorMessage = "No file path selected", !.handled = @ + 1]
    ELSE [u EXCEPT !.filePath = result.files[1], !.loading = TRUE, !.errorMessage = "",
                   !.pc = "getImportContexts", !.handled = @ + 1]

\* the webview receives the oldest broadcast
ReceiveDialogResult ==
    /\ ui.inFlight # <<>>
    /\ ui' = IF ReactsTo(Head(ui.inFlight)) /\ ~ui.closed
             THEN handleDialogResult([ui EXCEPT !.inFlight = Tail(@)], Head(ui.inFlight))
             ELSE [ui EXCEPT !.inFlight = Tail(@)]
    /\ UNCHANGED <<kc, disk, calls, nOps, ret, dupRun, bus>>

\* loadContextsFromFile after its await: the rows, or the error message
GetImportContextsReturns ==
    /\ ui.pc = "getImportContexts"
    /\ \E importContexts \in {ImportContextsOf(FileAt(ui.filePath), kc)} :
          ui' = IF IsThrown(importContexts)
                THEN [ui EXCEPT !.errorMessage = "Failed to parse config file: " \o importContexts.threw,
                                !.loadedContexts = <<>>, !.clicked = <<>>,
                                !.loading = FALSE, !.pc = ""]
                ELSE IF importContexts.list = <<>>
                THEN [ui EXCEPT !.errorMessage = "No valid contexts found in the config file",
                                !.loadedContexts = <<>>, !.clicked = <<>>,
                                !.loading = FALSE, !.pc = ""]
                ELSE [ui EXCEPT !.loadedContexts =
                                    [i \in DOMAIN importContexts.list |->
                                        [name |-> importContexts.list[i].name,
                                         hasConflict |-> importContexts.list[i].hasConflict,
                                         selected |-> TRUE,
                                         conflictResolution |-> InitialResolution]],
                                !.clicked = [i \in DOMAIN importContexts.list |-> ""],
                                !.loading = FALSE, !.pc = ""]
    /\ UNCHANGED <<kc, disk, calls, nOps, ret, dupRun, bus>>

\* the checkbox of a row is clicked
ToggleSelected(i) ==
    /\ ~ui.closed /\ ~ui.loading
    /\ i \in DOMAIN ui.loadedContexts
    /\ ui' = [ui EXCEPT !.loadedContexts[i].selected = ~@]
    /\ UNCHANGED <<kc, disk, calls, nOps, ret, dupRun, bus>>

\* updateConflictResolution: a radio of a selected, conflicting row is clicked
UpdateConflictResolution(i, resolution) ==
    /\ ~ui.closed /\ ~ui.loading
    /\ i \in DOMAIN ui.loadedContexts
    /\ ui.loadedContexts[i].hasConflict /\ ui.loadedContexts[i].selected
    /\ ui' = [ui EXCEPT !.loadedContexts[i].conflictResolution = resolution,
                        !.clicked[i] = resolution]
    /\ UNCHANGED <<kc, disk, calls, nOps, ret, dupRun, bus>>

\* the arguments importSelectedContexts hands to importContextsFromFile
ImportRequest(u) ==
    LET selectedContexts == SelectSeq(u.loadedContexts, LAMBDA item : item.selected)
        resolved == {i \in DOMAIN selectedContexts : NeedsResolution(selectedContexts[i])}
    IN [filePath |-> u.filePath,
        selectedContexts |-> [i \in DOMAIN selectedContexts |-> selectedContexts[i].name],
        conflictResolutions |->
            [n \in {selectedContexts[i].name : i \in resolved} |->
                selectedContexts[CHOOSE i \in resolved :
                                    /\ selectedContexts[i].name = n
                                    /\ \A j \in resolved : selectedContexts[j].name = n => j <= i
                                ].conflictResolution]]

\* importSelectedContexts up to its await, on a click on "Import contexts"
\* (the button is disabled while loading or with no row selected)
ImportSelectedContexts ==
    /\ ~ui.closed /\ ~ui.loading
    /\ \E i \in DOMAIN ui.loadedContexts : ui.loadedContexts[i].selected
    /\ ui' = IF ui.filePath = UNDEF
             THEN [ui EXCEPT !.errorMessage = "Original kubeconfig file path not found"]
             ELSE [ui EXCEPT !.loading = TRUE, !.errorMessage = "",
                             !.sent = ImportRequest(ui), !.pc = "importContextsFromFile"]
    /\ UNCHANGED <<kc, disk, calls, nOps, ret, dupRun, bus>>

\* importSelectedContexts after its await: the modal closes, or shows the error
ImportReturns(ok) ==
    /\ ui.pc = "importContextsFromFile"
    /\ ui' = IF ok
             THEN [ui EXCEPT !.closed = TRUE, !.loading = FALSE, !.pc = ""]
             ELSE [ui EXCEPT !.errorMessage = "Failed to import contexts", !.loading = FALSE, !.pc = ""]
    /\ UNCHANGED <<kc, disk, calls, nOps, ret, dupRun, bus>>

NextModal ==
    \/ \E t \in Tasks : LoadForModal(t)
    \/ OpenDialog
    \/ OpenOtherDialog
    \/ \E i \in 1..MaxDialogs :
          \/ \E uris \in DialogUris : DialogResolves(i, uris)
          \/ DialogRejects(i)
    \/ ReceiveDialogResult
    \/ GetImportContextsReturns
    \/ \E i \in 1..Len(ModalFile.contexts) :
          \/ ToggleSelected(i)
          \/ \E resolution \in {KEEP_BOTH, REPLACE} : UpdateConflictResolution(i, resolution)
    \/ ImportSelectedContexts
    \/ \E ok \in BOOLEAN : ImportReturns(ok)

SpecModal == Init /\ [][NextModal]_vars

\* showOpenDialog of request i settles
Settles(i) == DialogRejects(i) \/ \E uris \in DialogUris : DialogResolves(i, uris)

\* the dialog requests and their results, without the clicks on the loaded rows
NextDialogs ==
    \/ \E t \in Tasks : LoadForModal(t)
    \/ OpenDialog
    \/ OpenOtherDialog
    \/ \E i \in 1..MaxDialogs : Settles(i)
    \/ ReceiveDialogResult
    \/ GetImportContextsReturns

\* every file dialog is closed at some time, every broadcast is delivered and
\* every getImportContexts call returns
SpecDialogs ==
    /\ Init /\ [][NextDialogs]_vars
    /\ \A i \in 1..MaxDialogs : WF_vars(Settles(i))
    /\ WF_vars(ReceiveDialogResult)
    /\ WF_vars(GetImportContextsReturns)

-----------------------------------------------------------------------------
(* Overlapping calls: a second call starts while the first awaits *)

\* two callers of the manager; each has at most one call in progress
Callers == {1, 2}

\* the documents held before the calls: contexts "a" and "a-1", or "a" alone
OverlapDocs == {d \in OpsDocs : d.contexts # <<>> /\ d.contexts[1].name = "a"}

InitOverlap ==
    /\ kc = EmptyKubeConfig
    /\ disk = EmptyFile
    /\ calls = [t \in Callers |-> IdleCall]
    /\ nOps = 0
    /\ ret = NoRet
    /\ dupRun = NoRun
    /\ bus = NewBus
    /\ ui = NewUi

LoadForOverlap(t) ==
    /\ nOps = 0
    /\ \A u \in Callers : calls[u].op = "none"
    /\ \E doc \in OverlapDocs : Update(t, doc)

NextOverlap ==
    \E t \in Callers :
        \/ LoadForOverlap(t)
        \/ \E contextName \in DocNames, pathOk \in BOOLEAN :
              \/ SetCurrentContext(t, contextName, pathOk)
              \/ DeleteContext(t, contextName, pathOk)
              \/ DuplicateContext(t, contextName, pathOk)
        \/ \E result \in ConfirmAnswers, pathOk \in BOOLEAN : AnswerConfirmation(t, result, pathOk)
        \/ \E ok \in BOOLEAN : WriteSettles(t, ok)

SpecOverlap == InitOverlap /\ [][NextOverlap]_vars

-----------------------------------------------------------------------------
(* Properties of the pure functions, checked under SpecFn *)

\* the last pure call, its document argument and its result
FnCall == calls[1]
RemoveReturned == FnCall.op = "removeContext" /\ FnCall.pc = "done"
FindReturned == FnCall.op = "findNewContextName" /\ FnCall.pc = "done"

ClusterNamesOf(doc) == {doc.clusters[i].name : i \in DOMAIN doc.clusters}
UserNamesOf(doc) == {doc.users[i].name : i \in DOMAIN doc.users}
ClusterRefsOf(doc) == {doc.contexts[i].cluster : i \in DOMAIN doc.contexts}
UserRefsOf(doc) == {doc.contexts[i].user : i \in DOMAIN doc.contexts}

\* C1: removeContext(d, n) returns d itself (same clusters, users, contexts and
\* currentContext) whenever n is not the name of a context of d.
C1_RemoveAbsentIsIdentity ==
    (RemoveReturned /\ ~HasContext(FnCall.pre, FnCall.name)) => ret.doc = FnCall.pre

\* C1 witness: a removal of a name that is no context of a document with
\* contexts, and that the document names as its current context.
C1_Witness ==
    /\ RemoveReturned
    /\ ~HasContext(FnCall.pre, FnCall.name)
    /\ FnCall.pre.currentContext = FnCall.name
    /\ Len(FnCall.pre.contexts) > 0
    /\ ret.doc = FnCall.pre

\* C2: removing a context that is present drops a cluster (a user) if and only
\* if no surviving context references it and some context referenced it before;
\* the kept entries are the original ones in their original order.
C2_ReferenceCountedRemoval ==
    (RemoveReturned /\ HasContext(FnCall.pre, FnCall.name)) =>
        LET d == FnCall.pre
            r == ret.doc
            droppedCluster(n) == n \in ClusterRefsOf(d) /\ n \notin ClusterRefsOf(r)
            droppedUser(n) == n \in UserRefsOf(d) /\ n \notin UserRefsOf(r)
        IN /\ \A n \in ClusterNamesOf(d) : (n \notin ClusterNamesOf(r)) <=> droppedCluster(n)
           /\ \A n \in UserNamesOf(d) : (n \notin UserNamesOf(r)) <=> droppedUser(n)
           /\ r.clusters = SelectSeq(d.clusters, LAMBDA c : ~droppedCluster(c.name))
           /\ r.users = SelectSeq(d.users, LAMBDA u : ~droppedUser(u.name))

\* C2 witness: one removal that drops cluster c1, which nothing references any
\* more, keeps cluster c2, which the survivor references, keeps user u1, which
\* the removed context shared with the survivor, and keeps the orphan user u2.
C2_Witness ==
    /\ RemoveReturned
    /\ HasContext(FnCall.pre, FnCall.name)
    /\ Len(ret.doc.contexts) = 1
    /\ "c1" \in ClusterNamesOf(FnCall.pre) /\ "c1" \notin ClusterNamesOf(ret.doc)
    /\ "c2" \in ClusterNamesOf(ret.doc) /\ "c2" \in ClusterRefsOf(ret.doc)
    /\ "u1" \in UserRefsOf(FnCall.pre) /\ "u1" \in UserRefsOf(ret.doc)
    /\ "u1" \in UserNamesOf(ret.doc)
    /\ "u2" \in UserNamesOf(ret.doc) /\ "u2" \notin UserRefsOf(FnCall.pre)

\* C3: removing a context that is present introduces no dangling reference: a
\* surviving context whose cluster (user) is missing from the result referenced
\* a cluster (user) that was already missing from d.
C3_NoNewDanglingReference ==
    (RemoveReturned /\ HasContext(FnCall.pre, FnCall.name)) =>
        \A i \in DOMAIN ret.doc.contexts :
            /\ ret.doc.contexts[i].cluster \notin ClusterNamesOf(ret.doc)
                 => ret.doc.contexts[i].cluster \notin ClusterNamesOf(FnCall.pre)
            /\ ret.doc.contexts[i].user \notin UserNamesOf(ret.doc)
                 => ret.doc.contexts[i].user \notin UserNamesOf(FnCall.pre)

\* C3 witness: the removed context shared its cluster and its user with a
\* surviving context, and both entries are still there.
C3_Witness ==
    /\ RemoveReturned
    /\ HasContext(FnCall.pre, FnCall.name)
    /\ Len(FnCall.pre.contexts) = 2 /\ Len(ret.doc.contexts) = 1
    /\ FnCall.pre.contexts[1].cluster = FnCall.pre.contexts[2].cluster
    /\ FnCall.pre.contexts[1].user = FnCall.pre.contexts[2].user
    /\ ret.doc.contexts[1].cluster \in ClusterNamesOf(ret.doc)
    /\ ret.doc.contexts[1].user \in UserNamesOf(ret.doc)

\* C4: removing a context that is present yields currentContext = "" when d's
\* currentContext is the removed name, and d's currentContext otherwise.
C4_CurrentContextAfterRemoval ==
    (RemoveReturned /\ HasContext(FnCall.pre, FnCall.name)) =>
        ret.doc.currentContext =
            (IF FnCall.pre.currentContext = FnCall.name THEN "" ELSE FnCall.pre.currentContext)

\* C4 witness: the current context is removed and the result has none.
C4_Witness ==
    /\ RemoveReturned
    /\ HasContext(FnCall.pre, FnCall.name)
    /\ FnCall.pre.currentContext = FnCall.name
    /\ ret.doc.currentContext = ""

\* C6: findNewContextName(doc, base) returns base-k for the smallest k >= 1
\* such that base-k names no context of doc; it is never base and never the
\* name of a context of doc.
C6_SmallestFreeSuffix ==
    FindReturned =>
        /\ \E k \in 1..(Len(FnCall.pre.contexts) + 1) :
              /\ ret.str = SuffixedName(FnCall.name, k)
              /\ \A j \in 1..(k - 1) : SuffixedName(FnCall.name, j) \in ContextNames(FnCall.pre)
        /\ ret.str \notin ContextNames(FnCall.pre)
        /\ ret.str # FnCall.name

\* C6 witness: a-1 and a-2 are taken, so a-3 is returned for base a.
C6_Witness ==
    /\ FindReturned
    /\ FnCall.name = "a"
    /\ {"a-1", "a-2"} \subseteq ContextNames(FnCall.pre)
    /\ ret.str = "a-3"

-----------------------------------------------------------------------------
(* Properties of the operations, checked under Spec (one call at a time) *)

\* the call in progress or last finished
Call == calls[1]
NamesOf(contexts) == [i \in DOMAIN contexts |-> contexts[i].name]

\* the call left memory, file, event and notifications as they were
Untouched(c) ==
    /\ kc = c.pre
    /\ disk = c.preDisk
    /\ c.fired = 0
    /\ c.notifs = <<>>
    /\ c.buf = NoDoc

\* C5: deleteContext(name) asks for confirmation if and only if name is the
\* held document's current context, and when the answer is not 'Yes' it ends
\* with the held document and the file unchanged, no change event and no
\* notification.
C5_DeclinedDeleteIsSilent ==
    Call.op = "deleteContext" =>
        /\ Call.asked <=> (Call.name = Call.pre.currentContext)
        /\ (Call.pc = "done" /\ Call.asked /\ Call.answer # "Yes") => Untouched(Call)

\* C5 witness: the deletion of the current context, which exists, was
\* answered 'Cancel' and the call is over.
C5_Witness ==
    /\ Call.op = "deleteContext"
    /\ Call.pc = "done"
    /\ Call.asked
    /\ Call.answer = "Cancel"
    /\ HasContext(Call.pre, Call.name)
    /\ HasContext(kc, Call.name)

\* C7: from a document that contains n and no n-i, k consecutive successful
\* duplicateContext(n) calls leave the original contexts followed by n-1, ...,
\* n-k in that order.
C7_ConsecutiveDuplicates ==
    (/\ dupRun # NoRun
     /\ Call.pc = "done"
     /\ HasContext(dupRun.start, dupRun.name)
     /\ \A i \in 1..(Len(dupRun.start.contexts) + dupRun.k) :
            ~HasContext(dupRun.start, SuffixedName(dupRun.name, i)))
    => NamesOf(kc.contexts) =
           NamesOf(dupRun.start.contexts) \o [i \in 1..dupRun.k |-> SuffixedName(dupRun.name, i)]

\* C7 witness: two successful duplicateContext("a") calls in a row.
C7_Witness ==
    /\ dupRun # NoRun
    /\ Call.pc = "done"
    /\ dupRun.k = 2
    /\ dupRun.name = "a"
    /\ NamesOf(dupRun.start.contexts) = <<"a">>
    /\ NamesOf(kc.contexts) = <<"a", "a-1", "a-2">>

\* C8: duplicateContext(name) for a name that is no context of the held
\* document returns with the held document and the file unchanged, no change
\* event and no notification.
C8_DuplicateAbsentIsNoOp ==
    (Call.op = "duplicateContext" /\ ~HasContext(Call.pre, Call.name)) =>
        Call.pc = "done" /\ Untouched(Call)

\* C8 witness: a duplicateContext of a missing name on a document with a context.
C8_Witness ==
    /\ Call.op = "duplicateContext"
    /\ ~HasContext(Call.pre, Call.name)
    /\ Len(Call.pre.contexts) > 0
    /\ Call.pc = "done"

\* C9: duplicateContext(n) for a context that is present appends exactly one
\* context, named findNewContextName(doc, n), with the cluster, user and
\* namespace of n; clusters, users, currentContext and the contexts that were
\* there are unchanged.
C9_DuplicateAppendsCopy ==
    (Call.op = "duplicateContext" /\ HasContext(Call.pre, Call.name)) =>
        /\ kc.clusters = Call.pre.clusters
        /\ kc.users = Call.pre.users
        /\ kc.currentContext = Call.pre.currentContext
        /\ Len(kc.contexts) = Len(Call.pre.contexts) + 1
        /\ SubSeq(kc.contexts, 1, Len(Call.pre.contexts)) = Call.pre.contexts
        /\ \E i \in DOMAIN Call.pre.contexts :
              /\ Call.pre.contexts[i].name = Call.name
              /\ kc.contexts[Len(kc.contexts)] =
                     [Call.pre.contexts[i] EXCEPT !.name = findNewContextName(Call.pre, Call.name)]

\* C9 witness: the second of two contexts, which has a namespace, was duplicated.
C9_Witness ==
    /\ Call.op = "duplicateContext"
    /\ Call.pc = "done"
    /\ Len(Call.pre.contexts) = 2
    /\ Call.pre.contexts[2].name = Call.name
    /\ "namespace" \in DOMAIN Call.pre.contexts[2]
    /\ Len(kc.contexts) = 3
    /\ kc.contexts[3].namespace = "n1"

\* C10: editContext on a context that is present yields a context without a
\* namespace field when newFields.namespace is the empty string, with namespace
\* newFields.namespace when that is a non-empty string, and with the name,
\* cluster and user of newFields.
C10_EditNamespace ==
    (Call.op = "editContext" /\ HasContext(Call.pre, Call.name)) =>
        LET edited == kc.contexts[1]
            ns == Prop(Call.newContext, "namespace")
        IN /\ edited.name = Call.newContext.name
           /\ edited.cluster = Call.newContext.cluster
           /\ edited.user = Call.newContext.user
           /\ ns = "" => "namespace" \notin DOMAIN edited
           /\ ns \notin {"", UNDEF} => "namespace" \in DOMAIN edited /\ edited.namespace = ns

\* C10 witness: a context that had a namespace was edited with an empty one.
C10_Witness ==
    /\ Call.op = "editContext"
    /\ Call.pc = "done"
    /\ HasContext(Call.pre, Call.name)
    /\ "namespace" \in DOMAIN FindContext(Call.pre, Call.name)
    /\ Prop(Call.newContext, "namespace") = ""
    /\ "namespace" \notin DOMAIN kc.contexts[1]

\* C11: after a successful editContext(name, newFields) the current context is
\* newFields.name if it was `name` before the call, and is otherwise what it
\* was before the call.
C11_EditCurrentContext ==
    (Call.op = "editContext" /\ Call.pc = "done" /\ Call.notifs = <<>> /\ Call.threw = "") =>
        kc.currentContext = IF Call.pre.currentContext = Call.name
                            THEN Call.newContext.name
                            ELSE Call.pre.currentContext

\* C11 witness: the current context "a" was renamed to "b" and the write succeeded.
C11_Witness ==
    /\ Call.op = "editContext"
    /\ Call.pc = "done"
    /\ Call.notifs = <<>>
    /\ Call.pre.currentContext = "a"
    /\ Call.name = "a"
    /\ Call.newContext.name = "b"
    /\ kc.currentContext = "b"
    /\ disk = exportConfig(kc)

\* C12: editContext(name, newFields) for a name that is not a context of the
\* held document shows one error notification naming the context and returns
\* normally; the held document is unchanged, nothing is written and no change
\* event is fired.
C12_EditAbsentIsReported ==
    (Call.op = "editContext" /\ ~HasContext(Call.pre, Call.name)) =>
        /\ Call.pc = "done"
        /\ Call.threw = ""
        /\ Call.notifs =
               <<[title |-> "Error editing context",
                  body |-> "Editing context \"" \o Call.name
                           \o "\" failed: Error: Context name was not found in kube config",
                  type |-> "error",
                  highlight |-> TRUE]>>
        /\ kc = Call.pre
        /\ disk = Call.preDisk
        /\ Call.buf = NoDoc
        /\ Call.fired = 0

\* C12 witness: "a-1" was edited in a persisted document that only holds "a".
C12_Witness ==
    /\ Call.op = "editContext"
    /\ Call.name = "a-1"
    /\ ContextNames(Call.pre) = {"a"}
    /\ Call.preDisk # EmptyFile
    /\ Len(Call.notifs) = 1
    /\ kc = Call.pre

-----------------------------------------------------------------------------
(* Properties of the import calls, checked under SpecImport *)

\* C13: on a successful load getImportContexts returns one candidate per
\* context of the file, in the file's order; hasConflict is true exactly when
\* the held document has a context of that name; server is the server of the
\* file's cluster the context names, and is absent when the file has no such
\* cluster. The held document and the canonical file are as before the call
\* and no change event is fired.
C13_ImportCandidates ==
    (Call.op = "getImportContexts" /\ Loadable(Call.file)) =>
        /\ Call.pc = "done"
        /\ Call.threw = ""
        /\ "list" \in DOMAIN ret
        /\ Len(ret.list) = Len(Call.file.contexts)
        /\ \A i \in DOMAIN ret.list :
              LET context == Call.file.contexts[i]
                  named == {j \in DOMAIN Call.file.clusters :
                               Call.file.clusters[j].name = context.cluster}
              IN /\ ret.list[i].name = context.name
                 /\ ret.list[i].cluster = context.cluster
                 /\ ret.list[i].user = context.user
                 /\ ret.list[i].hasConflict = (context.name \in ContextNames(kc))
                 /\ named = {} => ret.list[i].server = UNDEF
                 /\ \A j \in named : ret.list[i].server = Call.file.clusters[j].server
        /\ kc = Call.pre
        /\ disk = Call.preDisk
        /\ Call.buf = NoDoc
        /\ Call.fired = 0
        /\ Call.notifs = <<>>

\* C13 witness: of two candidates the first conflicts and has a server, the
\* second does not conflict and names a cluster the file does not have.
C13_Witness ==
    /\ Call.op = "getImportContexts"
    /\ "list" \in DOMAIN ret
    /\ Len(ret.list) = 2
    /\ ret.list[1].hasConflict
    /\ ret.list[1].server = "https://import-c1"
    /\ ~ret.list[2].hasConflict
    /\ ret.list[2].server = UNDEF

\* C14: when the file does not exist or loading it throws, getImportContexts
\* shows an error notification and returns an empty list; no error reaches
\* the caller.
C14_ImportFailureIsReported ==
    (Call.op = "getImportContexts" /\ ~Loadable(Call.file)) =>
        /\ Call.pc = "done"
        /\ Call.threw = ""
        /\ ret = [list |-> <<>>]
        /\ Len(Call.notifs) = 1
        /\ Call.notifs[1].title = "Error getting import contexts"
        /\ Call.notifs[1].type = "error"

\* the import call that was made, and whether it reached update(newConfig)
ImportCall == Call.op = "importContextsFromFile"
ImportCommitted == ImportCall /\ Call.fired = 1
SelectedNames == {Call.selected[i] : i \in DOMAIN Call.selected}

\* the context carries the cluster, user and namespace of `source`
Carries(context, source) ==
    /\ context.cluster = source.cluster
    /\ context.user = source.user
    /\ Prop(context, "namespace") = Prop(source, "namespace")

\* the contexts of a document that have the given name
Named(doc, name) == {i \in DOMAIN doc.contexts : doc.contexts[i].name = name}

\* C15: an import with resolution "replace" for a selected name that is a
\* context of the held document and of the file yields a document with exactly
\* one context of that name, carrying the file's cluster, user and namespace.
C15_ReplaceYieldsOne ==
    ImportCommitted =>
        \A n \in SelectedNames :
            (/\ Prop(Call.resolutions, n) = "replace"
             /\ HasContext(Call.pre, n)
             /\ HasContext(Call.file, n)) =>
                /\ Cardinality(Named(kc, n)) = 1
                /\ \A i \in Named(kc, n) : Carries(kc.contexts[i], FindContext(Call.file, n))

\* C15 witness: "a" (cluster c1, no namespace) was replaced by the file's "a"
\* (cluster c2, namespace n2) while "a-1" was held too.
C15_Witness ==
    /\ ImportCommitted
    /\ Call.pc = "done"
    /\ Call.selected = <<"a">>
    /\ Prop(Call.resolutions, "a") = "replace"
    /\ ContextNames(Call.pre) = {"a", "a-1"}
    /\ FindContext(Call.pre, "a").cluster = "c1"
    /\ HasContext(Call.file, "a")
    /\ FindContext(Call.file, "a").cluster = "c2"
    /\ Cardinality(Named(kc, "a")) = 1
    /\ FindContext(kc, "a").cluster = "c2"
    /\ FindContext(kc, "a").namespace = "n2"
    /\ disk = exportConfig(kc)

\* C16: an import with resolution "keep-both" for a selected name that is a
\* context of the held document and of the file yields the original context
\* untouched (same name, cluster, user, namespace) and a second context that
\* carries the file's cluster, user and namespace under the name
\* findNewContextName gives for that name.
C16_KeepBothYieldsTwo ==
    ImportCommitted =>
        \A n \in SelectedNames :
            (/\ Prop(Call.resolutions, n) = "keep-both"
             /\ HasContext(Call.pre, n)
             /\ HasContext(Call.file, n)) =>
                /\ \E i \in Named(kc, n) : Carries(kc.contexts[i], FindContext(Call.pre, n))
                /\ \E j \in Named(kc, findNewContextName(Call.pre, n)) :
                      Carries(kc.contexts[j], FindContext(Call.file, n))

\* C17: an import of a selected name that is a context of the file and not of
\* the held document adds exactly one context under that name, and every
\* context held before is still there, unchanged.
C17_NewNameAddedOnce ==
    ImportCommitted =>
        \A n \in SelectedNames :
            (HasContext(Call.file, n) /\ ~HasContext(Call.pre, n)) =>
                /\ Cardinality(Named(kc, n)) = 1
                /\ \A i \in DOMAIN Call.pre.contexts :
                      Prop(Call.resolutions, Call.pre.contexts[i].name) # "replace" =>
                          \E j \in Named(kc, Call.pre.contexts[i].name) :
                              Carries(kc.contexts[j], Call.pre.contexts[i])

\* C18: when a selected name is a context of the working copy and the caller
\* gave no resolution for it, the import keeps both: the contexts of the
\* working copy stay as they are and the imported context is appended under a
\* name that is not the conflicting one and that no context of the working
\* copy has.
C18_NoResolutionKeepsBoth ==
    ImportCall =>
        \A i \in DOMAIN Call.selected :
            (/\ i + 1 \in DOMAIN Call.trace
             /\ ~IsThrown(Call.trace[i + 1])
             /\ HasContext(Call.file, Call.selected[i])
             /\ HasContext(Call.trace[i], Call.selected[i])
             /\ Prop(Call.resolutions, Call.selected[i]) = UNDEF) =>
                LET before == Call.trace[i].contexts
                    after == Call.trace[i + 1].contexts
                IN /\ Len(after) = Len(before) + 1
                   /\ SubSeq(after, 1, Len(before)) = before
                   /\ after[Len(after)].name # Call.selected[i]
                   /\ after[Len(after)].name \notin ContextNames(Call.trace[i])

\* C19: when the cluster or the user of a selected context of the file is not
\* in the file, importContextsFromFile ends with that error reaching its
\* caller, and the held document, the canonical file and the number of change
\* events are those of before the call, whatever was selected before it.
C19_MissingReferenceAborts ==
    (/\ ImportCall
     /\ Loadable(Call.file)
     /\ \E n \in SelectedNames :
           /\ HasContext(Call.file, n)
           /\ \/ FindContext(Call.file, n).cluster \notin ClusterNamesOf(Call.file)
              \/ FindContext(Call.file, n).user \notin UserNamesOf(Call.file)) =>
        /\ Call.pc = "done"
        /\ \E n \in SelectedNames :
              Call.threw = "Error: Missing cluster or user information for context " \o n
        /\ kc = Call.pre
        /\ disk = Call.preDisk
        /\ Call.buf = NoDoc
        /\ Call.fired = 0
        /\ Call.notifs = <<>>

\* C19 witness: "a" was imported into the working copy, then "a-1", whose
\* cluster the file does not have, raised the error.
C19_Witness ==
    /\ ImportCall
    /\ Call.selected = <<"a", "a-1">>
    /\ Len(Call.trace) = 3
    /\ Call.trace[2] # Call.trace[1]
    /\ IsThrown(Call.trace[3])
    /\ FindContext(Call.file, "a-1").cluster \notin ClusterNamesOf(Call.file)
    /\ Call.threw = "Error: Missing cluster or user information for context a-1"
    /\ kc = Call.pre

-----------------------------------------------------------------------------
(* Persistence failures, checked under Spec *)

\* the call ended in its catch block because the path or the write failed
PersistenceFailed ==
    /\ Call.op \in {"setCurrentContext", "deleteContext", "duplicateContext", "editContext"}
    /\ Call.pc = "done"
    /\ Len(Call.notifs) = 1
    /\ \E error \in {PathError, WriteError} :
          Call.notifs[1] = ErrorNotification(Call.op, Call.name, error)

\* C20: when the canonical path cannot be resolved or the write fails during
\* setCurrentContext, deleteContext, duplicateContext or editContext, the held
\* document after the call is the held document of before the call.
C20_FailedSaveKeepsDocument ==
    PersistenceFailed => kc = Call.pre

\* C21: setCurrentContext, deleteContext, duplicateContext and editContext
\* never let an error reach their caller: when resolving the path, writing
\* the file or looking up the context fails, the call ends with exactly one
\* error notification that names the operation and the context; without a
\* failure it shows none.
C21_FailuresAreNotified ==
    Call.op \in {"setCurrentContext", "deleteContext", "duplicateContext", "editContext"} =>
        /\ Call.threw = ""
        /\ Call.error = "" => Call.notifs = <<>>
        /\ Call.error # "" =>
              /\ Call.pc = "done"
              /\ Call.error \in {PathError, WriteError, NotFoundError}
              /\ Call.notifs = <<ErrorNotification(Call.op, Call.name, Call.error)>>

\* C21 witness: the write of duplicateContext("a") failed and the
\* notification of that operation is the only one shown.
C21_Witness ==
    /\ Call.op = "duplicateContext"
    /\ Call.pc = "done"
    /\ Call.error = WriteError
    /\ Call.threw = ""
    /\ Call.notifs = <<[title |-> "Error duplicating context",
                        body |-> "Duplicating context \"a\" failed: Error: write failed",
                        type |-> "error",
                        highlight |-> TRUE]>>

-----------------------------------------------------------------------------
(* Change events and persistence, checked under SpecOps *)

Persisting ==
    {"setCurrentContext", "deleteContext", "duplicateContext", "editContext",
     "importContextsFromFile"}

\* the call wrote the held document and ended without an error
Succeeded ==
    /\ Call.op \in Persisting
    /\ Call.pc = "done"
    /\ Call.error = ""
    /\ Call.buf # NoDoc

\* C22: an update(doc) call fires the change event exactly once and writes
\* nothing; a setCurrentContext, deleteContext, duplicateContext, editContext
\* or importContextsFromFile call that completes successfully fires it
\* exactly once.
C22_OneEventPerSuccess ==
    /\ Call.op = "update" => Call.fired = 1 /\ Call.buf = NoDoc /\ disk = Call.preDisk
    /\ Succeeded => Call.fired = 1

\* C22 witness: an import was the second successful call of the behaviour and
\* fired one event.
C22_Witness ==
    /\ Succeeded
    /\ Call.op = "importContextsFromFile"
    /\ nOps = 2
    /\ Call.preDisk # EmptyFile
    /\ Call.fired = 1
    /\ disk = Call.buf

\* C23: for each of the five persisting operations the change event is fired
\* only after the write of that operation succeeded; when the path or the
\* write fails the operation fires no event.
C23_EventOnlyAfterWrite ==
    Call.op \in Persisting =>
        /\ Call.fired > 0 => (Call.pc = "done" /\ Call.error = "")
        /\ Call.error # "" => Call.fired = 0

\* the file holds every cluster, user and context of the document, in the
\* document's order, and its current context
FileHolds(file, doc) ==
    /\ file # EmptyFile
    /\ file.currentContext = doc.currentContext
    /\ Len(file.clusters) = Len(doc.clusters)
    /\ \A i \in DOMAIN doc.clusters :
          /\ file.clusters[i].name = doc.clusters[i].name
          /\ Prop(file.clusters[i].cluster, "server") = Prop(doc.clusters[i], "server")
    /\ Len(file.users) = Len(doc.users)
    /\ \A i \in DOMAIN doc.users : file.users[i].name = doc.users[i].name
    /\ Len(file.contexts) = Len(doc.contexts)
    /\ \A i \in DOMAIN doc.contexts :
          /\ file.contexts[i].name = doc.contexts[i].name
          /\ Prop(file.contexts[i].context, "cluster") = Prop(doc.contexts[i], "cluster")
          /\ Prop(file.contexts[i].context, "user") = Prop(doc.contexts[i], "user")
          /\ Prop(file.contexts[i].context, "namespace") = Prop(doc.contexts[i], "namespace")

\* C24: after a call of the five persisting operations that succeeded, the
\* document last written to the canonical path is the whole held document:
\* the call wrote it, or the call changed neither the held document nor the
\* file (a declined deletion, a duplication of an absent context). Over a
\* sequence of calls that each succeed, the file therefore holds the held
\* document after every call.
C24_FileHoldsHeldDocument ==
    (Call.op \in Persisting /\ Call.pc = "done" /\ Call.error = "") =>
        \/ Call.buf # NoDoc /\ FileHolds(disk, kc)
        \/ Call.buf = NoDoc /\ kc = Call.pre /\ disk = Call.preDisk

\* C24 witness: after a successful first call, an edit that renamed the
\* current context "a" to "b" wrote a file with two contexts and current
\* context "b".
C24_Witness ==
    /\ Succeeded
    /\ Call.op = "editContext"
    /\ nOps = 2
    /\ Call.preDisk # EmptyFile
    /\ FileHolds(Call.preDisk, Call.pre)
    /\ kc.currentContext = "b"
    /\ Len(kc.contexts) = 2
    /\ FileHolds(disk, kc)
    /\ disk # Call.preDisk

\* the dispatchByChannelName calls of the last step made for `cause`
Dispatched(cause) == SelectSeq(bus.log, LAMBDA e : e.cause = cause)

\* C25: once init() has been called once, every change event raised by the
\* manager makes one dispatchByChannelName call, for the available-contexts
\* channel and for no other; a step that raises no change event makes no such
\* call. (With init() called n times, each event makes n calls.)
C25_ChangeDispatchesAvailableContexts ==
    /\ Len(Dispatched("change")) = bus.raised * bus.changeListeners
    /\ bus.changeListeners = 1 => Len(Dispatched("change")) = bus.raised
    /\ bus.raised = 0 => Dispatched("change") = <<>>
    /\ \A i \in DOMAIN bus.log :
          bus.log[i].cause = "change" => bus.log[i].channel = AvailableContexts

\* C25 witness: init() was called once, "ContextsHealths" has a subscriber
\* and "AvailableContexts" has one, and a setCurrentContext call that wrote the
\* file raised the event: one call, for "AvailableContexts", invoked its producer.
C25_Witness ==
    /\ bus.changeListeners = 1
    /\ Call.op = "setCurrentContext" /\ Call.pc = "done" /\ Call.fired = 1
    /\ bus.raised = 1
    /\ hasSubscribers(bus, "ContextsHealths")
    /\ Len(bus.log) = 1
    /\ bus.log[1].channel = AvailableContexts
    /\ bus.log[1].producer = AvailableContexts
    /\ bus.pending = <<AvailableContexts>>

\* C26: a "new subscriber" event for a channel makes, per listener registered
\* by init(), one dispatchByChannelName call, for exactly that channel; when
\* the channel has a registered producer the call invokes it with the
\* subscriptions of the channel, the new one included, in the same step.
C26_SubscriptionDispatchesItsChannel ==
    /\ Len(Dispatched("subscribe")) = (IF bus.announced = "" THEN 0 ELSE bus.subscribeListeners)
    /\ \A i \in DOMAIN bus.log :
          bus.log[i].cause = "subscribe" =>
              /\ bus.log[i].channel = bus.announced
              /\ bus.announced \in Producers =>
                    /\ bus.log[i].producer = bus.announced
                    /\ bus.log[i].subscriptions = bus.subs[bus.announced]
                    /\ bus.log[i].subscriptions # <<>>

\* C26 witness: with init() called once and no change event raised so far, a
\* second consumer subscribed to "ContextsHealths": one call, for that
\* channel, invoked its producer with both subscriptions.
C26_Witness ==
    /\ bus.subscribeListeners = 1
    /\ Call.op = "none"
    /\ bus.announced = "ContextsHealths"
    /\ Len(bus.log) = 1
    /\ bus.log[1].cause = "subscribe"
    /\ bus.log[1].channel = "ContextsHealths"
    /\ bus.log[1].producer = "ContextsHealths"
    /\ bus.log[1].subscriptions = <<[opt |-> "value"], [opt |-> "other"]>>
    /\ ~hasSubscribers(bus, AvailableContexts)

\* C27: a dispatchByChannelName(c) call invokes a producer exactly when c has
\* a subscriber and a producer is registered for c; the producer invoked is
\* the one of c, with c's subscription list as argument, and each call adds
\* one pending invocation, of that producer. Without subscribers, or without
\* a producer, the call returns and invokes nothing; console.error is called
\* only when subscribers exist and the producer is missing.
C27_DispatchInvokesTheChannelsProducer ==
    /\ [](\A i \in DOMAIN bus.log :
             LET e == bus.log[i] IN
             /\ e.producer # "" <=> (bus.subs[e.channel] # <<>> /\ e.channel \in Producers)
             /\ e.producer # "" => (e.producer = e.channel /\ e.subscriptions = bus.subs[e.channel])
             /\ e.consoleError <=> (bus.subs[e.channel] # <<>> /\ e.channel \notin Producers))
    /\ [][bus'.log # <<>> =>
             bus'.pending = bus.pending \o
                [i \in 1..Len(SelectSeq(bus'.log, LAMBDA e : e.producer # "")) |->
                    SelectSeq(bus'.log, LAMBDA e : e.producer # "")[i].channel]]_vars

\* C27 witness: "AvailableContexts" has a subscriber and "ContextsHealths"
\* got its first one; the one call of the step, for "ContextsHealths",
\* invoked that producer alone, with that subscription.
C27_Witness ==
    /\ Len(bus.log) = 1
    /\ bus.log[1].channel = "ContextsHealths"
    /\ bus.log[1].producer = "ContextsHealths"
    /\ bus.log[1].subscriptions = <<[opt |-> "value"]>>
    /\ hasSubscribers(bus, AvailableContexts)
    /\ bus.pending = <<"ContextsHealths">>

\* C28: update() and setCurrentContext() return in the step that raises the
\* change event: the producer invocations the event caused are pending when
\* the call has returned, and the invocations pending before are pending
\* still. A call that waits for its write goes on when the write settles,
\* whatever is pending.
C28_DispatchIsNotAwaited ==
    /\ [](Call.pc = "writing" => ENABLED WriteSettles(1, TRUE))
    /\ [][bus'.raised > 0 =>
             /\ calls'[1].pc = "done"
             /\ bus'.pending = bus.pending \o
                   [i \in 1..(IF InvokesProducer(bus, AvailableContexts)
                              THEN bus'.raised * bus.changeListeners ELSE 0) |-> AvailableContexts]]_vars

\* C28 witness: two setCurrentContext calls wrote the file and returned; the
\* producer invocations of both change events are pending.
C28_Witness ==
    /\ bus.changeListeners = 1
    /\ nOps = 2
    /\ Call.op = "setCurrentContext" /\ Call.pc = "done" /\ Call.error = ""
    /\ disk = Call.buf
    /\ bus.raised = 1
    /\ bus.pending = <<AvailableContexts, AvailableContexts>>

\* the contexts the import call appended that are contexts of its result:
\* the last context of a working copy to which a step of the loop added one
Appended ==
    {c \in {kc.contexts[i] : i \in DOMAIN kc.contexts} :
        \E j \in 2..Len(Call.trace) :
            /\ FindContext(Call.file, Call.selected[j - 1]) # NoContext
            /\ c = Call.trace[j].contexts[Len(Call.trace[j].contexts)]}

\* C29: after an import that succeeded, every context the import appended
\* names a cluster and a user of the resulting document.
C29_ImportedContextsAreResolved ==
    (ImportCommitted /\ Call.pc = "done" /\ Call.error = "") =>
        \A c \in Appended :
            /\ c.cluster \in ClusterNamesOf(kc)
            /\ c.user \in UserNamesOf(kc)

\* the reference of the context to a cluster and a user of the document holds
Resolved(doc, context) ==
    /\ context.cluster \in ClusterNamesOf(doc)
    /\ context.user \in UserNamesOf(doc)

\* C30: the context a duplicateContext call created, and the context an
\* editContext call rewrote, name a cluster and a user of the document the
\* call committed and wrote.
C30_CreatedContextsAreResolved ==
    /\ (Call.op = "duplicateContext" /\ Succeeded) =>
          \A i \in Named(kc, findNewContextName(Call.pre, Call.name)) : Resolved(kc, kc.contexts[i])
    /\ (Call.op = "editContext" /\ Succeeded) => Resolved(kc, kc.contexts[1])

\* the rows of the modal that are selected, in loaded order
SelectedRows == {i \in DOMAIN ui.loadedContexts : ui.loadedContexts[i].selected}

\* C31: while the importContextsFromFile request of a click on Import is
\* awaited, its arguments are the chosen path, the names of exactly the
\* selected rows in loaded order, and a resolution map whose keys are exactly
\* the selected rows with hasConflict, each "replace" when the radio last
\* clicked in the row was "replace" and "keep-both" otherwise.
C31_ImportRequestArguments ==
    ui.pc = "importContextsFromFile" =>
        /\ ui.sent.filePath = ui.filePath
        /\ ui.filePath \in {ImportFilePath, OtherFilePath}
        /\ Len(ui.sent.selectedContexts) = Cardinality(SelectedRows)
        /\ \A k \in DOMAIN ui.sent.selectedContexts :
              \E i \in SelectedRows :
                 /\ Cardinality({j \in SelectedRows : j <= i}) = k
                 /\ ui.sent.selectedContexts[k] = ui.loadedContexts[i].name
        /\ DOMAIN ui.sent.conflictResolutions =
              {ui.loadedContexts[i].name : i \in {j \in SelectedRows : ui.loadedContexts[j].hasConflict}}
        /\ \A i \in SelectedRows :
              ui.loadedContexts[i].hasConflict =>
                 ui.sent.conflictResolutions[ui.loadedContexts[i].name] =
                    (IF ui.clicked[i] = REPLACE THEN REPLACE ELSE KEEP_BOTH)

\* C31 witness: of the rows b, a-1, a the first was deselected; a-1 and a
\* conflict with the held document, "replace" was clicked for a-1 only.
C31_Witness ==
    /\ ui.pc = "importContextsFromFile"
    /\ ui.sent = [filePath |-> ImportFilePath,
                  selectedContexts |-> <<"a-1", "a">>,
                  conflictResolutions |-> [n \in {"a-1", "a"} |-> IF n = "a" THEN KEEP_BOTH ELSE REPLACE]]
    /\ Len(ui.loadedContexts) = 3
    /\ ~ui.loadedContexts[1].hasConflict

\* the names of the document's contexts are pairwise distinct
UniqueNames(doc) ==
    \A i, j \in DOMAIN doc.contexts : doc.contexts[i].name = doc.contexts[j].name => i = j

\* C32: an editContext call on a document with pairwise distinct context
\* names commits a document with pairwise distinct context names.
C32_EditKeepsNamesUnique ==
    (Call.op = "editContext" /\ Succeeded /\ UniqueNames(Call.pre)) => UniqueNames(kc)

\* C33: an import from a file with pairwise distinct context names into a
\* document with pairwise distinct context names commits a document with
\* pairwise distinct context names.
C33_ImportKeepsNamesUnique ==
    (ImportCall /\ Succeeded /\ UniqueNames(Call.pre) /\ UniqueNames(Call.file)) => UniqueNames(kc)

\* the steps of the import loop that replaced a context: step j turned the
\* working copy trace[j] into trace[j + 1]
ReplacingSteps ==
    {j \in 1..(Len(Call.trace) - 1) :
        /\ ~IsThrown(Call.trace[j + 1])
        /\ FindContext(Call.file, Call.selected[j]) # NoContext
        /\ Replaces(Prop(Call.resolutions, Call.selected[j]),
                    FindContext(Call.trace[j], Call.selected[j]))}

\* C34: a step of the import that replaces a context leaves every other
\* context of the working copy resolved: one whose cluster and user were in
\* the working copy before the step finds them there after it.
C34_ReplaceKeepsOthersResolved ==
    ImportCall =>
        \A j \in ReplacingSteps :
            \A i \in DOMAIN Call.trace[j].contexts :
                LET c == Call.trace[j].contexts[i] IN
                (c.name # Call.selected[j] /\ Resolved(Call.trace[j], c)) =>
                    Resolved(Call.trace[j + 1], c)

\* the current context is empty or the name of a context of the document
CurrentContextExists(doc) == doc.currentContext = "" \/ HasContext(doc, doc.currentContext)

\* C35: a step of setCurrentContext, deleteContext, duplicateContext,
\* editContext or importContextsFromFile taken with a current context that is
\* empty or names an existing context leaves one that is empty or names an
\* existing context.
C35_CurrentContextStaysValid ==
    [][(calls'[1].op \in Persisting /\ CurrentContextExists(kc)) => CurrentContextExists(kc')]_vars

\* the contexts of the document whose name is not `name`, in order
Others(doc, name) == SelectSeq(doc.contexts, LAMBDA ctx : ctx.name # name)

\* C36: an editContext call for a present context commits a document with
\* the clusters and users of before, as many contexts as before, the edited
\* context first and the other contexts after it in their order of before.
C36_EditFrame ==
    (Call.op = "editContext" /\ Succeeded) =>
        /\ HasContext(Call.pre, Call.name)
        /\ kc.clusters = Call.pre.clusters
        /\ kc.users = Call.pre.users
        /\ Len(kc.contexts) = Len(Call.pre.contexts)
        /\ kc.contexts[1].name = Call.newContext.name
        /\ kc.contexts[1].cluster = Call.newContext.cluster
        /\ kc.contexts[1].user = Call.newContext.user
        /\ Tail(kc.contexts) = Others(Call.pre, Call.name)

\* the step is the removal made by caller t's deleteContext call: the call
\* went from its start, or from the prompt, to the write (or to the failure
\* of the save)
RemovalBy(t) ==
    /\ calls'[t] # calls[t]
    /\ calls'[t].op = "deleteContext"
    /\ calls[t].pc \in {"idle", "done", "confirm"}
    /\ calls'[t].pc = "writing" \/ (calls'[t].pc = "done" /\ calls'[t].error # "")

\* C37: whatever calls overlap, a deleteContext call removes a context that
\* is the current context when it is removed only after the user answered
\* 'Yes' to the prompt of that call.
C37_CurrentContextRemovedOnlyOnYes ==
    [][\A t \in Callers :
          (RemovalBy(t) /\ HasContext(kc, calls'[t].name) /\ kc.currentContext = calls'[t].name) =>
              (calls'[t].asked /\ calls'[t].answer = "Yes")]_vars

\* C37 witness: caller 2 made "a-1" current and still awaits its write when
\* caller 1 asks to delete "a-1": caller 1 was prompted, answered 'Yes', and
\* the context is removed while both writes are awaited.
C37_Witness ==
    /\ calls[2].op = "setCurrentContext" /\ calls[2].name = "a-1" /\ calls[2].pc = "writing"
    /\ calls[2].pre.currentContext # "a-1"
    /\ calls[1].op = "deleteContext" /\ calls[1].name = "a-1" /\ calls[1].pc = "writing"
    /\ calls[1].asked /\ calls[1].answer = "Yes"
    /\ HasContext(calls[1].pre, "a-1")
    /\ ~HasContext(kc, "a-1")

\* both callers made a mutating call, the second one started while the first
\* awaited its write, and both wrote the file and ended without an error
BothSucceeded ==
    \A t \in Callers :
        /\ calls[t].op \in Persisting
        /\ calls[t].pc = "done"
        /\ calls[t].error = ""
        /\ calls[t].buf # NoDoc
Overlapped == calls[2].preDisk = calls[1].preDisk /\ calls[2].pre # calls[1].pre

\* C38: when a second call started while the first awaited its write and both
\* succeeded, the file holds the held document.
C38_OverlappingCallsLoseNothing ==
    (nOps = 2 /\ BothSucceeded /\ Overlapped) => FileHolds(disk, kc)

\* the broadcast sent in the step, when the step sends one
Sent == ui'.inFlight[Len(ui'.inFlight)]
\* the step hands the oldest broadcast to the webview
Delivers == Len(ui'.inFlight) < Len(ui.inFlight)

\* a request is followed by at most one broadcast, sent when its dialog settles
OneResultPerRequest ==
    \A i \in DOMAIN ui.dialogs :
        /\ ui.dialogs[i].state = "open" => ui.dialogs[i].fired = 0 /\ ~ui.dialogs[i].notified
        /\ ui.dialogs[i].state = "resolved" => ui.dialogs[i].fired = 1 /\ ~ui.dialogs[i].notified
        /\ ui.dialogs[i].state = "rejected" => ui.dialogs[i].fired = 1 /\ ui.dialogs[i].notified

\* openDialog returns with the dialog still open and nothing broadcast
ReturnsAtOnce ==
    Len(ui'.dialogs) > Len(ui.dialogs) =>
        /\ ui'.dialogs[Len(ui'.dialogs)].state = "open"
        /\ ui'.dialogs[Len(ui'.dialogs)].fired = 0
        /\ ui'.inFlight = ui.inFlight

\* the broadcast of a settling dialog carries the id of its request, and the
\* chosen paths or, for a rejected dialog, no files
ResultOfRequest ==
    \A i \in DOMAIN ui.dialogs :
        ui'.dialogs[i].fired # ui.dialogs[i].fired =>
            /\ Len(ui'.inFlight) = Len(ui.inFlight) + 1
            /\ Sent.id = ui.dialogs[i].id /\ Sent.request = i
            /\ [defined |-> Sent.defined, files |-> Sent.files] \in DialogUris
            /\ ui'.dialogs[i].state = "rejected" => ~Sent.defined

\* the modal handles the results with its id and no other, and a handled result
\* clears loading or starts the getImportContexts call that will
ReactsToOwnResults ==
    /\ ui'.handled # ui.handled => Delivers /\ Head(ui.inFlight).id = DIALOG_ID
    /\ (Delivers /\ Head(ui.inFlight).id = DIALOG_ID /\ ~ui.closed) =>
          /\ ui'.handled = ui.handled + 1
          /\ ~ui'.loading \/ ui'.pc = "getImportContexts"
    /\ (Delivers /\ Head(ui.inFlight).id # DIALOG_ID) =>
          ui' = [ui EXCEPT !.inFlight = Tail(@)]

====
